---- MODULE Spec2Model ----
(***************************************************************************)
(* Ingestion, few-shot example caching and deletion of the document chat   *)
(* backend (backend/src/services/documentService.ts, embeddingService.ts,  *)
(* index.ts, server.ts), as a state machine over the two tables            *)
(* `documents` (chunk records) and `few_shot_examples`.                    *)
(*                                                                         *)
(* A text is represented by its length in characters; a chunk by the span  *)
(* [start, end) of the text it holds.  Every await on a backend (embedding *)
(* model, completion endpoint, table query) is one step whose outcome is   *)
(* chosen among success, a rate-limit error and any other error.           *)
(***************************************************************************)
EXTENDS Integers, Sequences, FiniteSets, Bags, TLC

\* ------------------------------------------------------------- constants
chunkSize == 12000
chunkOverlap == 1500
batchSize == 2
maxInputTokensDS == 25000
maxInputTokensCFE == 40000
maxInputTokensOPT == 125000

\* ---------------------------------------------------------------- bounds
\* total number of backend anomalies (errors, empty completions) seen by the
\* requests of a run
MaxFaults == 1
\* total number of requests issued in a run
MaxRequests == 2

Docs == {"doc.pdf"}
\* request slots of the concurrent specification / of the sequential one
Procs == {"r1", "r2"}
SeqProcs == {"r1"}
\* text lengths: 20000 -> 2 chunks (one batch), 30000 -> 3 chunks (two
\* batches), 100001 -> 10 chunks and over the 25000-token few-shot budget
SmallTexts == {20000, 30000}
BigTexts == {30000, 100001}
ConcTexts == {30000}
\* few-shot-only inputs: under budget, over 40000 tokens, over 125000 tokens
CFETexts == {20000, 160001}
OPTTexts == {20000, 500001}

RateLimit == "rate_limit_exceeded"
OtherError == "other_error"
ErrorCodes == {RateLimit, OtherError}
StorageError == "storage_error"

PROCESS == "processDocument"
CFE == "createFewShotExamples"
OPT == "createFewShotExamplesOptimized"
DELETE == "deleteDocument"
REINDEX == "reindexDocument"
LIST == "getProcessedDocuments"

\* ----------------------------------------------------------- pure helpers
Min(a, b) == IF a < b THEN a ELSE b

estimateTokens(len) == (len + 3) \div 4

RECURSIVE splitFrom(_, _, _, _)
splitFrom(i, len, size, step) ==
    IF i >= len THEN <<>>
    ELSE LET end == Min(i + size, len)
         IN  <<[start |-> i, end |-> end]>> \o
             (IF end >= len THEN <<>> ELSE splitFrom(i + step, len, size, step))

splitIntoChunks(len, size, overlap) == splitFrom(0, len, size, size - overlap)

\* RecursiveCharacterTextSplitter({chunkSize, chunkOverlap}).splitText
splitText(len) == splitIntoChunks(len, chunkSize, chunkOverlap)

RECURSIVE sliceFrom(_, _, _)
sliceFrom(i, len, maxChars) ==
    IF i >= len THEN <<>>
    ELSE <<[start |-> i, end |-> Min(i + maxChars, len)]>> \o
         sliceFrom(i + maxChars, len, maxChars)

splitTextForTokenLimit(len, maxTokens) == sliceFrom(0, len, maxTokens * 4)

\* rows of a table (a bag of records) that belong to document d
RowsOf(table, d) ==
    LET keep == {r \in DOMAIN table : r.document_name = d}
    IN  [r \in keep |-> table[r]]

RowsNotOf(table, d) ==
    LET keep == {r \in DOMAIN table : r.document_name # d}
    IN  [r \in keep |-> table[r]]

CountOf(table, d) == BagCardinality(RowsOf(table, d))

InsertRow(table, r) == table (+) SetToBag({r})

\* the text a list of per-chunk outputs joins to is the empty string (falsy)
\* iff the list is empty or is one empty output
IsEmptyText(examples) ==
    \/ Len(examples) = 0
    \/ Len(examples) = 1 /\ examples[1].empty

\* ------------------------------------------------------------------ state
VARIABLES
    documents,          \* table `documents`: a bag of chunk records
    few_shot_examples,  \* table `few_shot_examples`: a bag of example records
    pc,                 \* each request slot's position in its handler
    req,                \* each slot's call: operation, documentName, text
    loc,                \* each slot's local variables
    res,                \* what the call returned or threw
    orphans,            \* chunk operations of abandoned batch attempts, still running
    faults,             \* backend anomalies so far
    nreq,               \* requests issued so far
    ev,                 \* the error thrown in the last step, if any
    embeddingPipeline   \* config.ts: the memoized embedding model, and the models built so far

vars == <<documents, few_shot_examples, pc, req, loc, res, orphans, faults, nreq, ev,
          embeddingPipeline>>

\* let embeddingPipeline: any = null. The models are numbered as they are
\* built: 0 stands for null, `built` counts the models built so far.
NoPipeline == [value |-> 0, built |-> 0]

NoEv == [kind |-> "none", p |-> "", code |-> ""]
Failure(kind, p, code) == [kind |-> kind, p |-> p, code |-> code]

NoReq == [op |-> "none", doc |-> "", text |-> 0]
NoRes == [status |-> "none", count |-> 0, flag |-> FALSE, examples |-> <<>>]
LocInit ==
    [i |-> 0, totalProcessed |-> 0, pending |-> {}, embeddings |-> <<>>,
     fsI |-> 0, allExamples |-> <<>>, fewShotExamples |-> <<>>,
     deletedChunks |-> 0, err |-> "none", chunks |-> <<>>,
     \* what the checks below look at, not read by the program:
     first |-> {},          \* the count the first of two identical calls reported
     atCall |-> {},         \* the chunk rows, orphans and anomalies there were at the call
     seen |-> {},           \* the outcome of the few-shot lookup and the rows it met
     inserted |-> {},       \* the chunk_index values this call inserted
     embedCalled |-> FALSE, completionCalled |-> FALSE, wrote |-> FALSE]

Init ==
    /\ documents = EmptyBag
    /\ few_shot_examples = EmptyBag
    /\ pc = [p \in Procs |-> "idle"]
    /\ req = [p \in Procs |-> NoReq]
    /\ loc = [p \in Procs |-> LocInit]
    /\ res = [p \in Procs |-> NoRes]
    /\ orphans = EmptyBag
    /\ faults = 0
    /\ nreq = 0
    /\ ev = NoEv
    /\ embeddingPipeline = NoPipeline

\* outcomes of a backend call: errors only while the anomaly budget lasts
QueryOutcomes == {"ok"} \cup (IF faults < MaxFaults THEN {"error"} ELSE {})
CompletionOutcomes == {"ok"} \cup (IF faults < MaxFaults THEN {"empty"} \cup ErrorCodes ELSE {})

Charge(o) == faults' = IF o = "ok" THEN faults ELSE faults + 1

Return(p, r) ==
    /\ pc' = [pc EXCEPT ![p] = "done"]
    /\ res' = [res EXCEPT ![p] = r]

Throw(p) == Return(p, [NoRes EXCEPT !.status = "error"])

Goto(p, l) == pc' = [pc EXCEPT ![p] = l]

\* ------------------------------------------------- DocumentService.processDocument
L(p) == loc[p]
SetLoc(p, l) == loc' = [loc EXCEPT ![p] = l]

AtCall(d) == {[count |-> CountOf(documents, d), quiet |-> (orphans = EmptyBag),
               faults |-> faults]}

processDocument(p, texts) ==
    /\ pc[p] = "idle"
    /\ nreq < MaxRequests
    /\ \E d \in Docs, t \in texts :
          req' = [req EXCEPT ![p] = [op |-> PROCESS, doc |-> d, text |-> t]]
    /\ Goto(p, "pd_check")
    /\ SetLoc(p, [LocInit EXCEPT !.atCall = AtCall(req'[p].doc)])
    /\ nreq' = nreq + 1
    /\ UNCHANGED <<documents, few_shot_examples, res, orphans, faults>>
    /\ ev' = NoEv
    /\ UNCHANGED embeddingPipeline


\* as the mutation of checkDocumentExists: the check waits while another
\* request is ingesting the same document
checkDocumentExistsExclusive(p) ==
    /\ pc[p] = "pd_check"
    /\ \A q \in Procs \ {p} :
          ~(req[q].doc = req[p].doc
              /\ pc[q] \in {"pe_loop", "pe_await", "pe_delay", "pe_cooldown"})
    /\ \E o \in QueryOutcomes :
          /\ Charge(o)
          /\ IF o = "ok" /\ CountOf(documents, req[p].doc) > 0
             THEN Goto(p, "pd_count")
             ELSE Goto(p, "pe_loop")
    /\ UNCHANGED <<documents, few_shot_examples, req, loc, res, orphans, nreq>>
    /\ ev' = NoEv
    /\ UNCHANGED embeddingPipeline

\* select('*').eq('document_name', documentName).limit(1); a query error is
\* caught and answered null, like no row
checkDocumentExists(p) ==
    /\ pc[p] = "pd_check"
    /\ \E o \in QueryOutcomes :
          /\ Charge(o)
          /\ IF o = "ok" /\ CountOf(documents, req[p].doc) > 0
             THEN Goto(p, "pd_count")
             ELSE Goto(p, "pe_loop")
    /\ UNCHANGED <<documents, few_shot_examples, req, loc, res, orphans, nreq>>
    /\ ev' = NoEv
    /\ UNCHANGED embeddingPipeline

\* the count query of checkDocumentExists (its error is not looked at: count
\* is null, and `count || 0` is 0), then processDocument's early return
checkDocumentExistsCount(p) ==
    /\ pc[p] = "pd_count"
    /\ \E o \in QueryOutcomes :
          /\ Charge(o)
          /\ LET chunk_count == IF o = "ok" THEN CountOf(documents, req[p].doc) ELSE 0
             IN  Return(p, [NoRes EXCEPT !.status = "ok", !.count = chunk_count,
                                         !.flag = TRUE])
    /\ UNCHANGED <<documents, few_shot_examples, req, loc, orphans, nreq>>
    /\ ev' = NoEv
    /\ UNCHANGED embeddingPipeline

\* ------------------------------------------------ DocumentService.processEmbeddings
ChunkRow(d, index, chunk) ==
    [document_name |-> d, chunk_index |-> index, content |-> chunk, embedding |-> chunk]

\* the chunk operations of the batch that starts at i: batch.map((chunk, index) => ...)
BatchTasks(d, chunks, i) ==
    LET batch == SubSeq(chunks, i + 1, Min(i + batchSize, Len(chunks)))
    IN  {ChunkRow(d, i + (index - 1), batch[index]) : index \in 1..Len(batch)}

processEmbeddingsBatch(p) ==
    /\ pc[p] = "pe_loop"
    /\ L(p).i < Len(splitText(req[p].text))
    /\ SetLoc(p, [L(p) EXCEPT !.pending = BatchTasks(req[p].doc, splitText(req[p].text), L(p).i)])
    /\ Goto(p, "pe_await")
    /\ UNCHANGED <<documents, few_shot_examples, req, res, orphans, faults, nreq>>
    /\ ev' = NoEv
    /\ UNCHANGED embeddingPipeline

processEmbeddingsReturn(p) ==
    /\ pc[p] = "pe_loop"
    /\ L(p).i >= Len(splitText(req[p].text))
    /\ Goto(p, "fs_check")
    /\ UNCHANGED <<documents, few_shot_examples, req, loc, res, orphans, faults, nreq>>
    /\ ev' = NoEv
    /\ UNCHANGED embeddingPipeline

\* one chunk of the batch: embed, insert, no error
chunkInserted(p) ==
    /\ pc[p] = "pe_await"
    /\ \E t \in L(p).pending :
          /\ documents' = InsertRow(documents, t)
          /\ SetLoc(p, [L(p) EXCEPT !.pending = @ \ {t}, !.embedCalled = TRUE,
                                    !.wrote = TRUE, !.inserted = @ \cup {t.chunk_index}])
    /\ UNCHANGED <<few_shot_examples, pc, req, res, orphans, faults, nreq>>
    /\ ev' = NoEv
    /\ UNCHANGED embeddingPipeline


\* as the mutation of processEmbeddingsCatch: every error is waited out and retried
processEmbeddingsCatchRetryAll(p, code) ==
    Goto(p, "pe_cooldown") /\ UNCHANGED res

\* what the catch block of processEmbeddings does with the error code
processEmbeddingsCatch(p, code) ==
    IF code = RateLimit
    THEN Goto(p, "pe_cooldown") /\ UNCHANGED res
    ELSE Throw(p)

\* as the mutation of chunkFailed: when the batch fails for good, the rows
\* the call has inserted are deleted again
chunkFailedRollback(p) ==
    /\ pc[p] = "pe_await"
    /\ faults < MaxFaults
    /\ \E t \in L(p).pending, code \in ErrorCodes :
          /\ orphans' = orphans (+) SetToBag({[row |-> r, owner |-> p] : r \in L(p).pending \ {t}})
          /\ SetLoc(p, [L(p) EXCEPT !.pending = {}, !.embedCalled = TRUE, !.err = code])
          /\ processEmbeddingsCatch(p, code)
          /\ ev' = Failure("chunk", p, code)
          /\ documents' = IF code = RateLimit THEN documents
                          ELSE RowsNotOf(documents, req[p].doc)
    /\ faults' = faults + 1
    /\ UNCHANGED <<few_shot_examples, req, nreq>>
    /\ UNCHANGED embeddingPipeline

\* one chunk of the batch throws (embedding or insert): Promise.all rejects with
\* this first error; the batch's other chunk operations keep running
chunkFailed(p) ==
    /\ pc[p] = "pe_await"
    /\ faults < MaxFaults
    /\ \E t \in L(p).pending, code \in ErrorCodes :
          /\ orphans' = orphans (+) SetToBag({[row |-> r, owner |-> p] : r \in L(p).pending \ {t}})
          /\ SetLoc(p, [L(p) EXCEPT !.pending = {}, !.embedCalled = TRUE, !.err = code])
          /\ processEmbeddingsCatch(p, code)
          /\ ev' = Failure("chunk", p, code)
    /\ faults' = faults + 1
    /\ UNCHANGED <<documents, few_shot_examples, req, nreq>>
    /\ UNCHANGED embeddingPipeline

\* as the mutation of processEmbeddingsBatchDone: the delay follows every
\* batch, the last one too
processEmbeddingsBatchDoneAlwaysDelay(p) ==
    /\ pc[p] = "pe_await"
    /\ L(p).pending = {}
    /\ LET chunks == splitText(req[p].text)
           n == Min(L(p).i + batchSize, Len(chunks)) - L(p).i
       IN  /\ SetLoc(p, [L(p) EXCEPT !.totalProcessed = @ + n])
           /\ Goto(p, "pe_delay")
    /\ UNCHANGED <<documents, few_shot_examples, req, res, orphans, faults, nreq>>
    /\ ev' = NoEv
    /\ UNCHANGED embeddingPipeline

\* Promise.all resolved: totalProcessed += batchResults.length, then the delay
\* between batches or the loop's i += batchSize
processEmbeddingsBatchDone(p) ==
    /\ pc[p] = "pe_await"
    /\ L(p).pending = {}
    /\ LET chunks == splitText(req[p].text)
           n == Min(L(p).i + batchSize, Len(chunks)) - L(p).i
       IN  IF L(p).i + batchSize < Len(chunks)
           THEN /\ SetLoc(p, [L(p) EXCEPT !.totalProcessed = @ + n])
                /\ Goto(p, "pe_delay")
           ELSE /\ SetLoc(p, [L(p) EXCEPT !.totalProcessed = @ + n, !.i = @ + batchSize])
                /\ Goto(p, "pe_loop")
    /\ UNCHANGED <<documents, few_shot_examples, req, res, orphans, faults, nreq>>
    /\ ev' = NoEv
    /\ UNCHANGED embeddingPipeline

\* as the mutation of processEmbeddingsDelay: the loop moves on by two batches
processEmbeddingsDelaySkip(p) ==
    /\ pc[p] = "pe_delay"
    /\ SetLoc(p, [L(p) EXCEPT !.i = @ + 2 * batchSize])
    /\ Goto(p, "pe_loop")
    /\ UNCHANGED <<documents, few_shot_examples, req, res, orphans, faults, nreq>>
    /\ ev' = NoEv
    /\ UNCHANGED embeddingPipeline

processEmbeddingsDelay(p) ==
    /\ pc[p] = "pe_delay"
    /\ SetLoc(p, [L(p) EXCEPT !.i = @ + batchSize])
    /\ Goto(p, "pe_loop")
    /\ UNCHANGED <<documents, few_shot_examples, req, res, orphans, faults, nreq>>
    /\ ev' = NoEv
    /\ UNCHANGED embeddingPipeline

\* after the 60 s wait: i -= batchSize, then the loop's i += batchSize
processEmbeddingsCooldown(p) ==
    /\ pc[p] = "pe_cooldown"
    /\ SetLoc(p, [L(p) EXCEPT !.i = (@ - batchSize) + batchSize])
    /\ Goto(p, "pe_loop")
    /\ UNCHANGED <<documents, few_shot_examples, req, res, orphans, faults, nreq>>
    /\ ev' = NoEv
    /\ UNCHANGED embeddingPipeline

\* a chunk operation of an abandoned batch attempt completes: its insert takes
\* effect, or it throws and nobody hears
orphanInserted ==
    /\ \E t \in DOMAIN orphans :
          /\ documents' = InsertRow(documents, t.row)
          /\ orphans' = orphans (-) SetToBag({t})
    /\ UNCHANGED <<few_shot_examples, pc, req, loc, res, faults, nreq>>
    /\ ev' = NoEv
    /\ UNCHANGED embeddingPipeline

orphanFailed ==
    /\ \E t \in DOMAIN orphans, code \in ErrorCodes :
          /\ orphans' = orphans (-) SetToBag({t})
          /\ ev' = Failure("orphan", t.owner, code)
    /\ UNCHANGED <<documents, few_shot_examples, pc, req, loc, res, faults, nreq>>
    /\ UNCHANGED embeddingPipeline

\* ------------------- generateFewShotExamples / createFewShotExamples(Optimized)
maxInputTokens(op) ==
    IF op = PROCESS THEN maxInputTokensDS
    ELSE IF op = CFE THEN maxInputTokensCFE
    ELSE maxInputTokensOPT

createFewShotExamples(p) ==
    /\ pc[p] = "idle"
    /\ nreq < MaxRequests
    /\ \E d \in Docs, t \in CFETexts :
          req' = [req EXCEPT ![p] = [op |-> CFE, doc |-> d, text |-> t]]
    /\ Goto(p, "fs_check")
    /\ SetLoc(p, LocInit)
    /\ nreq' = nreq + 1
    /\ UNCHANGED <<documents, few_shot_examples, res, orphans, faults>>
    /\ ev' = NoEv
    /\ UNCHANGED embeddingPipeline

createFewShotExamplesOptimized(p) ==
    /\ pc[p] = "idle"
    /\ nreq < MaxRequests
    /\ \E d \in Docs, t \in OPTTexts :
          req' = [req EXCEPT ![p] = [op |-> OPT, doc |-> d, text |-> t]]
    /\ Goto(p, "fs_check")
    /\ SetLoc(p, LocInit)
    /\ nreq' = nreq + 1
    /\ UNCHANGED <<documents, few_shot_examples, res, orphans, faults>>
    /\ ev' = NoEv
    /\ UNCHANGED embeddingPipeline

\* as the mutation of getFewShotExamplesFromDB: the lookup always answers null
getFewShotExamplesFromDBNull(table, d, o) == {}

\* as the mutation of getFewShotExamplesFromDB: without `|| null`, an empty
\* text is a value like any other
getFewShotExamplesFromDBAnyText(table, d, o) ==
    IF o = "ok" /\ CountOf(table, d) = 1
    THEN {r.few_shot_examples : r \in {x \in DOMAIN table : x.document_name = d}}
    ELSE {}

\* .select('few_shot_examples').eq('document_name', d).single(): no row or several
\* rows is error PGRST116 (null); any other error is caught (null);
\* `data?.few_shot_examples || null` makes an empty text null as well.
\* The result is a set: empty for null, else the one text.
getFewShotExamplesFromDB(table, d, o) ==
    IF o = "ok" /\ CountOf(table, d) = 1
    THEN {r.few_shot_examples : r \in {x \in DOMAIN table :
                x.document_name = d /\ ~IsEmptyText(x.few_shot_examples)}}
    ELSE {}

\* as the mutation of FewShotResult: the generator's boolean is not passed on
FewShotResultAlwaysTrue(p, generated, examples) ==
    IF req[p].op = PROCESS
    THEN [NoRes EXCEPT !.status = "ok", !.count = L(p).totalProcessed, !.flag = TRUE]
    ELSE [NoRes EXCEPT !.status = "ok", !.examples = examples]

\* what the generator hands back to its caller: processDocument's result with
\* the boolean of generateFewShotExamples, or the examples text
FewShotResult(p, generated, examples) ==
    IF req[p].op = PROCESS
    THEN [NoRes EXCEPT !.status = "ok", !.count = L(p).totalProcessed, !.flag = generated]
    ELSE [NoRes EXCEPT !.status = "ok", !.examples = examples]

\* the cache check, then the choice between one request and the chunked loop
fewShotCacheCheck(p) ==
    /\ pc[p] = "fs_check"
    /\ \E o \in QueryOutcomes :
          /\ Charge(o)
          /\ SetLoc(p, [L(p) EXCEPT !.seen = {[outcome |-> o,
                                   rows |-> RowsOf(few_shot_examples, req[p].doc)]}])
          /\ LET existingExamples == getFewShotExamplesFromDB(few_shot_examples, req[p].doc, o)
             IN  IF existingExamples # {}
                 THEN Return(p, FewShotResult(p, TRUE, CHOOSE e \in existingExamples : TRUE))
                 ELSE /\ UNCHANGED res
                      /\ IF estimateTokens(req[p].text) <= maxInputTokens(req[p].op)
                         THEN Goto(p, "fs_single")
                         ELSE Goto(p, "fs_loop")
    /\ UNCHANGED <<documents, few_shot_examples, req, orphans, nreq>>
    /\ ev' = NoEv
    /\ UNCHANGED embeddingPipeline

Output(chunkNumber, o) == [chunk |-> chunkNumber, empty |-> (o = "empty")]

\* the single request over the whole text: any error leaves the generator
\* (generateFewShotExamples answers false, createFewShotExamples throws)
fewShotSingle(p) ==
    /\ pc[p] = "fs_single"
    /\ \E o \in CompletionOutcomes :
          /\ Charge(o)
          /\ ev' = IF o \in ErrorCodes THEN Failure("single", p, o) ELSE NoEv
          /\ IF o \in ErrorCodes
             THEN /\ SetLoc(p, [L(p) EXCEPT !.completionCalled = TRUE, !.err = o])
                  /\ IF req[p].op = PROCESS
                     THEN Return(p, FewShotResult(p, FALSE, <<>>))
                     ELSE Throw(p)
             ELSE /\ SetLoc(p, [L(p) EXCEPT !.completionCalled = TRUE,
                                            !.fewShotExamples = <<Output(0, o)>>])
                  /\ Goto(p, "fs_store")
                  /\ UNCHANGED res
    /\ UNCHANGED <<documents, few_shot_examples, req, orphans, nreq>>
    /\ UNCHANGED embeddingPipeline

FewShotChunks(p) == splitTextForTokenLimit(req[p].text, maxInputTokens(req[p].op))

\* as the mutation of fewShotCatch: every failed chunk is waited out and retried
fewShotCatchRetryAll(p, op, code) ==
    /\ SetLoc(p, [L(p) EXCEPT !.completionCalled = TRUE, !.err = code])
    /\ Goto(p, "fs_cooldown")

\* as the mutation of fewShotCatch: a rate-limited chunk is skipped like any
\* other failed chunk
fewShotCatchSkip(p, op, code) ==
    /\ SetLoc(p, [L(p) EXCEPT !.completionCalled = TRUE, !.err = code, !.fsI = @ + 1])
    /\ UNCHANGED pc

\* the catch block of the chunked loop: cooldown and retry on a rate limit
\* (not in createFewShotExamplesOptimized), else skip the chunk
fewShotCatch(p, op, code) ==
    IF code = RateLimit /\ op # OPT
    THEN /\ SetLoc(p, [L(p) EXCEPT !.completionCalled = TRUE, !.err = code])
         /\ Goto(p, "fs_cooldown")
    ELSE /\ SetLoc(p, [L(p) EXCEPT !.completionCalled = TRUE, !.err = code,
                                   !.fsI = @ + 1])
         /\ UNCHANGED pc

\* one iteration of the chunked loop: the completion request for chunk i + 1
fewShotChunk(p) ==
    /\ pc[p] = "fs_loop"
    /\ L(p).fsI < Len(FewShotChunks(p))
    /\ \E o \in CompletionOutcomes :
          /\ Charge(o)
          /\ ev' = IF o \in ErrorCodes THEN Failure("loop", p, o) ELSE NoEv
          /\ IF o \in ErrorCodes
             THEN fewShotCatch(p, req[p].op, o)
             ELSE IF L(p).fsI < Len(FewShotChunks(p)) - 1
                  THEN /\ SetLoc(p, [L(p) EXCEPT !.completionCalled = TRUE,
                                       !.allExamples = Append(@, Output(L(p).fsI + 1, o))])
                       /\ Goto(p, "fs_delay")
                  ELSE /\ SetLoc(p, [L(p) EXCEPT !.completionCalled = TRUE,
                                       !.allExamples = Append(@, Output(L(p).fsI + 1, o)),
                                       !.fsI = @ + 1])
                       /\ UNCHANGED pc
    /\ UNCHANGED <<documents, few_shot_examples, req, res, orphans, nreq>>
    /\ UNCHANGED embeddingPipeline

fewShotDelay(p) ==
    /\ pc[p] = "fs_delay"
    /\ SetLoc(p, [L(p) EXCEPT !.fsI = @ + 1])
    /\ Goto(p, "fs_loop")
    /\ UNCHANGED <<documents, few_shot_examples, req, res, orphans, faults, nreq>>
    /\ ev' = NoEv
    /\ UNCHANGED embeddingPipeline

\* after the 60 s wait: i--, then the loop's i++
fewShotCooldown(p) ==
    /\ pc[p] = "fs_cooldown"
    /\ SetLoc(p, [L(p) EXCEPT !.fsI = (@ - 1) + 1])
    /\ Goto(p, "fs_loop")
    /\ UNCHANGED <<documents, few_shot_examples, req, res, orphans, faults, nreq>>
    /\ ev' = NoEv
    /\ UNCHANGED embeddingPipeline

\* fewShotExamples = allExamples.join('\n\n')
fewShotJoin(p) ==
    /\ pc[p] = "fs_loop"
    /\ L(p).fsI >= Len(FewShotChunks(p))
    /\ SetLoc(p, [L(p) EXCEPT !.fewShotExamples = L(p).allExamples])
    /\ Goto(p, "fs_store")
    /\ UNCHANGED <<documents, few_shot_examples, req, res, orphans, faults, nreq>>
    /\ ev' = NoEv
    /\ UNCHANGED embeddingPipeline

ExampleRow(d, examples) == [document_name |-> d, few_shot_examples |-> examples]

\* as the mutation of storeFewShotExamplesInDB: a failed insert is fatal to
\* the call, whoever the caller
storeFewShotExamplesInDBFatal(p) ==
    /\ pc[p] = "fs_store"
    /\ \E o \in QueryOutcomes :
          /\ Charge(o)
          /\ IF o = "ok"
             THEN /\ few_shot_examples' =
                        InsertRow(few_shot_examples, ExampleRow(req[p].doc, L(p).fewShotExamples))
                  /\ SetLoc(p, [L(p) EXCEPT !.wrote = TRUE])
                  /\ Return(p, FewShotResult(p, TRUE, L(p).fewShotExamples))
             ELSE /\ UNCHANGED few_shot_examples
                  /\ SetLoc(p, [L(p) EXCEPT !.err = StorageError])
                  /\ Throw(p)
    /\ UNCHANGED <<documents, req, orphans, nreq>>
    /\ ev' = NoEv
    /\ UNCHANGED embeddingPipeline

\* as the mutation of storeFewShotExamplesInDB: the record is inserted twice
storeFewShotExamplesInDBTwice(p) ==
    /\ pc[p] = "fs_store"
    /\ \E o \in QueryOutcomes :
          /\ Charge(o)
          /\ IF o = "ok"
             THEN /\ few_shot_examples' =
                        InsertRow(InsertRow(few_shot_examples,
                                            ExampleRow(req[p].doc, L(p).fewShotExamples)),
                                  ExampleRow(req[p].doc, L(p).fewShotExamples))
                  /\ SetLoc(p, [L(p) EXCEPT !.wrote = TRUE])
                  /\ Return(p, FewShotResult(p, TRUE, L(p).fewShotExamples))
             ELSE /\ UNCHANGED few_shot_examples
                  /\ SetLoc(p, [L(p) EXCEPT !.err = StorageError])
                  /\ Return(p, FewShotResult(p, FALSE, L(p).fewShotExamples))
    /\ UNCHANGED <<documents, req, orphans, nreq>>
    /\ ev' = NoEv
    /\ UNCHANGED embeddingPipeline

\* the insert of the examples: DocumentService rethrows its error (the
\* generator answers false), index.ts logs it and goes on
storeFewShotExamplesInDB(p) ==
    /\ pc[p] = "fs_store"
    /\ \E o \in QueryOutcomes :
          /\ Charge(o)
          /\ IF o = "ok"
             THEN /\ few_shot_examples' =
                        InsertRow(few_shot_examples, ExampleRow(req[p].doc, L(p).fewShotExamples))
                  /\ SetLoc(p, [L(p) EXCEPT !.wrote = TRUE])
                  /\ Return(p, FewShotResult(p, TRUE, L(p).fewShotExamples))
             ELSE /\ UNCHANGED few_shot_examples
                  /\ SetLoc(p, [L(p) EXCEPT !.err = StorageError])
                  /\ Return(p, FewShotResult(p, FALSE, L(p).fewShotExamples))
    /\ UNCHANGED <<documents, req, orphans, nreq>>
    /\ ev' = NoEv
    /\ UNCHANGED embeddingPipeline

\* --------------------------------------------------- DocumentService.deleteDocument
deleteDocument(p) ==
    /\ pc[p] = "idle"
    /\ nreq < MaxRequests
    /\ \E d \in Docs :
          /\ req' = [req EXCEPT ![p] = [op |-> DELETE, doc |-> d, text |-> 0]]
          /\ SetLoc(p, [LocInit EXCEPT !.atCall =
                            {[quiet |-> (orphans = EmptyBag)]}])
    /\ Goto(p, "del_chunks")
    /\ nreq' = nreq + 1
    /\ UNCHANGED <<documents, few_shot_examples, res, orphans, faults>>
    /\ ev' = NoEv
    /\ UNCHANGED embeddingPipeline

deleteDocumentChunks(p) ==
    /\ pc[p] = "del_chunks"
    /\ \E o \in QueryOutcomes :
          /\ Charge(o)
          /\ IF o = "ok"
             THEN /\ documents' = RowsNotOf(documents, req[p].doc)
                  /\ SetLoc(p, [L(p) EXCEPT !.wrote = TRUE,
                                   !.deletedChunks = CountOf(documents, req[p].doc)])
                  /\ Goto(p, "del_examples")
                  /\ UNCHANGED res
             ELSE /\ Throw(p)
                  /\ UNCHANGED <<documents, loc>>
    /\ UNCHANGED <<few_shot_examples, req, orphans, nreq>>
    /\ ev' = NoEv
    /\ UNCHANGED embeddingPipeline

\* as the mutation of deleteDocumentExamples: deletedExamples is true whatever
\* the delete reported
deleteDocumentExamplesBlind(p) ==
    /\ pc[p] = "del_examples"
    /\ \E o \in QueryOutcomes :
          /\ Charge(o)
          /\ few_shot_examples' = IF o = "ok" THEN RowsNotOf(few_shot_examples, req[p].doc)
                                  ELSE few_shot_examples
          /\ Return(p, [NoRes EXCEPT !.status = "ok", !.count = L(p).deletedChunks,
                                      !.flag = TRUE])
    /\ UNCHANGED <<documents, req, loc, orphans, nreq>>
    /\ ev' = NoEv
    /\ UNCHANGED embeddingPipeline

deleteDocumentExamples(p) ==
    /\ pc[p] = "del_examples"
    /\ \E o \in QueryOutcomes :
          /\ Charge(o)
          /\ few_shot_examples' = IF o = "ok" THEN RowsNotOf(few_shot_examples, req[p].doc)
                                  ELSE few_shot_examples
          /\ Return(p, [NoRes EXCEPT !.status = "ok", !.count = L(p).deletedChunks,
                                      !.flag = (o = "ok")])
    /\ UNCHANGED <<documents, req, loc, orphans, nreq>>
    /\ ev' = NoEv
    /\ UNCHANGED embeddingPipeline

\* ---------------------------------------------- DocumentService.getProcessedDocuments
\* documentsMap: one entry per document_name with the number of its rows
\* (created_at and the order of the entries are left out)
documentsMap(table) ==
    {[name |-> d, chunk_count |-> CountOf(table, d)] :
        d \in {r.document_name : r \in DOMAIN table}}

\* the caller lists the documents, from a free slot or right after a
\* deleteDocument that returned; `first` keeps what that call was and returned
getProcessedDocuments(p) ==
    /\ \/ pc[p] = "idle"
       \/ pc[p] = "done" /\ req[p].op = DELETE /\ res[p].status = "ok"
    /\ req' = [req EXCEPT ![p] = [op |-> LIST, doc |-> "", text |-> 0]]
    /\ SetLoc(p, [LocInit EXCEPT !.first =
                    IF pc[p] = "done"
                    THEN {[doc |-> req[p].doc, count |-> res[p].count, flag |-> res[p].flag,
                           atCall |-> L(p).atCall]}
                    ELSE {}])
    /\ Goto(p, "list_query")
    /\ res' = [res EXCEPT ![p] = NoRes]
    /\ UNCHANGED <<documents, few_shot_examples, orphans, faults, nreq>>
    /\ ev' = NoEv
    /\ UNCHANGED embeddingPipeline

\* .from('documents').select('document_name, created_at'), then the grouping
getProcessedDocumentsQuery(p) ==
    /\ pc[p] = "list_query"
    /\ \E o \in QueryOutcomes :
          /\ Charge(o)
          /\ IF o = "ok"
             THEN Return(p, [status |-> "ok", list |-> documentsMap(documents)])
             ELSE Throw(p)
    /\ UNCHANGED <<documents, few_shot_examples, req, loc, orphans, nreq>>
    /\ ev' = NoEv
    /\ UNCHANGED embeddingPipeline

\* ------------------------------------------------- EmbeddingService.reindexDocument
reindexDocument(p, texts) ==
    /\ pc[p] = "idle"
    /\ nreq < MaxRequests
    /\ \E d \in Docs, t \in texts :
          req' = [req EXCEPT ![p] = [op |-> REINDEX, doc |-> d, text |-> t]]
    /\ Goto(p, "ri_delete")
    /\ SetLoc(p, LocInit)
    /\ nreq' = nreq + 1
    /\ UNCHANGED <<documents, few_shot_examples, res, orphans, faults>>
    /\ ev' = NoEv
    /\ UNCHANGED embeddingPipeline

ReindexChunks(p) == splitIntoChunks(req[p].text, chunkSize, chunkOverlap)

reindexDelete(p) ==
    /\ pc[p] = "ri_delete"
    /\ \E o \in QueryOutcomes :
          /\ Charge(o)
          /\ IF o = "ok"
             THEN /\ documents' = RowsNotOf(documents, req[p].doc)
                  /\ SetLoc(p, [L(p) EXCEPT !.wrote = TRUE])
                  /\ Goto(p, "bc_loop")
                  /\ UNCHANGED res
             ELSE /\ Throw(p)
                  /\ UNCHANGED <<documents, loc>>
    /\ UNCHANGED <<few_shot_examples, req, orphans, nreq>>
    /\ ev' = NoEv
    /\ UNCHANGED embeddingPipeline

\* batchCreateEmbeddings: the texts of the batch that starts at i, by position
batchCreateEmbeddingsBatch(p) ==
    /\ pc[p] = "bc_loop"
    /\ L(p).i < Len(ReindexChunks(p))
    /\ SetLoc(p, [L(p) EXCEPT !.pending = (L(p).i + 1)..Min(L(p).i + batchSize, Len(ReindexChunks(p)))])
    /\ Goto(p, "bc_await")
    /\ UNCHANGED <<documents, few_shot_examples, req, res, orphans, faults, nreq>>
    /\ ev' = NoEv
    /\ UNCHANGED embeddingPipeline

batchCreateEmbeddingsReturn(p) ==
    /\ pc[p] = "bc_loop"
    /\ L(p).i >= Len(ReindexChunks(p))
    /\ Goto(p, "ri_insert")
    /\ UNCHANGED <<documents, few_shot_examples, req, loc, res, orphans, faults, nreq>>
    /\ ev' = NoEv
    /\ UNCHANGED embeddingPipeline

createEmbeddingDone(p) ==
    /\ pc[p] = "bc_await"
    /\ \E k \in L(p).pending :
          SetLoc(p, [L(p) EXCEPT !.pending = @ \ {k}, !.embedCalled = TRUE])
    /\ UNCHANGED <<documents, few_shot_examples, pc, req, res, orphans, faults, nreq>>
    /\ ev' = NoEv
    /\ UNCHANGED embeddingPipeline

batchCreateEmbeddingsCatch(p, code) ==
    IF code = RateLimit
    THEN Goto(p, "bc_cooldown") /\ UNCHANGED res
    ELSE Throw(p)

createEmbeddingFailed(p) ==
    /\ pc[p] = "bc_await"
    /\ faults < MaxFaults
    /\ L(p).pending # {}
    /\ \E code \in ErrorCodes :
          /\ SetLoc(p, [L(p) EXCEPT !.pending = {}, !.embedCalled = TRUE, !.err = code])
          /\ batchCreateEmbeddingsCatch(p, code)
          /\ ev' = Failure("embedding", p, code)
    /\ faults' = faults + 1
    /\ UNCHANGED <<documents, few_shot_examples, req, orphans, nreq>>
    /\ UNCHANGED embeddingPipeline

\* embeddings.push(...batchEmbeddings): the batch's embeddings in the batch's order
batchCreateEmbeddingsBatchDone(p) ==
    /\ pc[p] = "bc_await"
    /\ L(p).pending = {}
    /\ LET chunks == ReindexChunks(p)
           batch == SubSeq(chunks, L(p).i + 1, Min(L(p).i + batchSize, Len(chunks)))
       IN  IF L(p).i + batchSize < Len(chunks)
           THEN /\ SetLoc(p, [L(p) EXCEPT !.embeddings = @ \o batch])
                /\ Goto(p, "bc_delay")
           ELSE /\ SetLoc(p, [L(p) EXCEPT !.embeddings = @ \o batch, !.i = @ + batchSize])
                /\ Goto(p, "bc_loop")
    /\ UNCHANGED <<documents, few_shot_examples, req, res, orphans, faults, nreq>>
    /\ ev' = NoEv
    /\ UNCHANGED embeddingPipeline

batchCreateEmbeddingsDelay(p) ==
    /\ pc[p] = "bc_delay"
    /\ SetLoc(p, [L(p) EXCEPT !.i = @ + batchSize])
    /\ Goto(p, "bc_loop")
    /\ UNCHANGED <<documents, few_shot_examples, req, res, orphans, faults, nreq>>
    /\ ev' = NoEv
    /\ UNCHANGED embeddingPipeline

\* as the mutation of batchCreateEmbeddingsCooldown: without `i -= batchSize`
batchCreateEmbeddingsCooldownSkip(p) ==
    /\ pc[p] = "bc_cooldown"
    /\ SetLoc(p, [L(p) EXCEPT !.i = @ + batchSize])
    /\ Goto(p, "bc_loop")
    /\ UNCHANGED <<documents, few_shot_examples, req, res, orphans, faults, nreq>>
    /\ ev' = NoEv
    /\ UNCHANGED embeddingPipeline

batchCreateEmbeddingsCooldown(p) ==
    /\ pc[p] = "bc_cooldown"
    /\ SetLoc(p, [L(p) EXCEPT !.i = (@ - batchSize) + batchSize])
    /\ Goto(p, "bc_loop")
    /\ UNCHANGED <<documents, few_shot_examples, req, res, orphans, faults, nreq>>
    /\ ev' = NoEv
    /\ UNCHANGED embeddingPipeline

\* insertData = chunks.map((chunk, index) => ({chunk, embeddings[index], index}))
ReindexRows(d, chunks, embeddings) ==
    {[document_name |-> d, chunk_index |-> index - 1, content |-> chunks[index],
      embedding |-> embeddings[index]] : index \in 1..Len(chunks)}

reindexInsert(p) ==
    /\ pc[p] = "ri_insert"
    /\ \E o \in QueryOutcomes :
          /\ Charge(o)
          /\ IF o = "ok"
             THEN /\ documents' = documents (+)
                        SetToBag(ReindexRows(req[p].doc, ReindexChunks(p), L(p).embeddings))
                  /\ Return(p, [NoRes EXCEPT !.status = "ok", !.count = Len(ReindexChunks(p))])
             ELSE /\ Throw(p)
                  /\ UNCHANGED documents
    /\ UNCHANGED <<few_shot_examples, req, loc, orphans, nreq>>
    /\ ev' = NoEv
    /\ UNCHANGED embeddingPipeline

\* ------------------------------------------- server.ts: the two ingestion endpoints
UPLOAD == "POST /api/documents/upload"
PROCESSFILE == "POST /api/documents/process"
Endpoints == {UPLOAD, PROCESSFILE}
BadRequest == "400"
NotFound == "404"

\* the file of a request: none, one pdf-parse cannot read, one with no text,
\* one with text
NoFile == [present |-> FALSE, readable |-> FALSE, text |-> 0]
EndpointFiles ==
    {NoFile} \cup {[present |-> TRUE, readable |-> r, text |-> t] :
                     r \in BOOLEAN, t \in {0} \cup ConcTexts}

\* getPdfContent: data.text, or "" when reading or parsing throws
getPdfContent(file) == IF file.readable THEN file.text ELSE 0

\* as the mutation of extractionFailed: the endpoint does not look at the text
extractionFailedNever(pdfContent) == FALSE

\* if (!pdfContent)
extractionFailed(pdfContent) == pdfContent = 0

endpointRequest(p) ==
    /\ pc[p] = "idle"
    /\ nreq < MaxRequests
    /\ \E route \in Endpoints, d \in Docs, f \in EndpointFiles :
          req' = [req EXCEPT ![p] = [op |-> route, doc |-> d, text |-> 0, file |-> f]]
    /\ Goto(p, "ep_extract")
    /\ SetLoc(p, LocInit)
    /\ nreq' = nreq + 1
    /\ UNCHANGED <<documents, few_shot_examples, res, orphans, faults>>
    /\ ev' = NoEv
    /\ UNCHANGED embeddingPipeline

\* the handler up to its processDocument call: the checks of the request, the
\* extraction, and the 400 answer for an empty text
endpointExtract(p) ==
    /\ pc[p] = "ep_extract"
    /\ LET file == req[p].file
           pdfContent == getPdfContent(file)
       IN  IF ~file.present
           THEN /\ Return(p, [NoRes EXCEPT !.status =
                                IF req[p].op = UPLOAD THEN BadRequest ELSE NotFound])
                /\ UNCHANGED <<req, loc>>
           ELSE IF extractionFailed(pdfContent)
           THEN /\ Return(p, [NoRes EXCEPT !.status = BadRequest])
                /\ UNCHANGED <<req, loc>>
           ELSE /\ req' = [req EXCEPT ![p] = [op |-> PROCESS, doc |-> req[p].doc,
                                              text |-> pdfContent]]
                /\ Goto(p, "pd_check")
                /\ SetLoc(p, [LocInit EXCEPT !.atCall = AtCall(req[p].doc)])
                /\ UNCHANGED res
    /\ UNCHANGED <<documents, few_shot_examples, orphans, faults, nreq>>
    /\ ev' = NoEv
    /\ UNCHANGED embeddingPipeline

\* --------------------------------------------------------------- the callers
\* the response is sent; the slot is free again
Finish(p) ==
    /\ pc[p] = "done"
    /\ Goto(p, "idle")
    /\ req' = [req EXCEPT ![p] = NoReq]
    /\ SetLoc(p, LocInit)
    /\ res' = [res EXCEPT ![p] = NoRes]
    /\ UNCHANGED <<documents, few_shot_examples, orphans, faults, nreq>>
    /\ ev' = NoEv
    /\ UNCHANGED embeddingPipeline

\* the caller ingests the same (text, documentName) again, right after a
\* successful processDocument; `first` keeps what the first call reported
processDocumentAgain(p) ==
    /\ pc[p] = "done"
    /\ req[p].op = PROCESS
    /\ res[p].status = "ok"
    /\ L(p).first = {}
    /\ nreq < MaxRequests
    /\ Goto(p, "pd_check")
    /\ SetLoc(p, [LocInit EXCEPT !.first = {res[p].count}, !.atCall = AtCall(req[p].doc)])
    /\ res' = [res EXCEPT ![p] = NoRes]
    /\ nreq' = nreq + 1
    /\ UNCHANGED <<documents, few_shot_examples, req, orphans, faults>>
    /\ ev' = NoEv
    /\ UNCHANGED embeddingPipeline

\* ingestion with the single-request few-shot path, and deletion
StepIngest(p, texts) ==
    \/ processDocument(p, texts)
    \/ checkDocumentExists(p)
    \/ checkDocumentExistsCount(p)
    \/ processEmbeddingsBatch(p)
    \/ processEmbeddingsReturn(p)
    \/ chunkInserted(p)
    \/ chunkFailed(p)
    \/ processEmbeddingsBatchDone(p)
    \/ processEmbeddingsDelay(p)
    \/ processEmbeddingsCooldown(p)
    \/ fewShotCacheCheck(p)
    \/ fewShotSingle(p)
    \/ storeFewShotExamplesInDB(p)
    \/ deleteDocument(p)
    \/ deleteDocumentChunks(p)
    \/ deleteDocumentExamples(p)
    \/ Finish(p)
    \/ processDocumentAgain(p)

\* the chunked few-shot loop, the generators of index.ts, and reindexing
StepOther(p) ==
    \/ createFewShotExamples(p)
    \/ createFewShotExamplesOptimized(p)
    \/ fewShotChunk(p)
    \/ fewShotDelay(p)
    \/ fewShotCooldown(p)
    \/ fewShotJoin(p)
    \/ reindexDocument(p, SmallTexts)
    \/ reindexDelete(p)
    \/ batchCreateEmbeddingsBatch(p)
    \/ batchCreateEmbeddingsReturn(p)
    \/ createEmbeddingDone(p)
    \/ createEmbeddingFailed(p)
    \/ batchCreateEmbeddingsBatchDone(p)
    \/ batchCreateEmbeddingsDelay(p)
    \/ batchCreateEmbeddingsCooldown(p)
    \/ reindexInsert(p)
    \/ getProcessedDocuments(p)
    \/ getProcessedDocumentsQuery(p)
    \/ endpointRequest(p)
    \/ endpointExtract(p)

\* one caller at a time (requests follow one another), every operation
Next ==
    \/ \E p \in SeqProcs : StepIngest(p, BigTexts) \/ StepOther(p)
    \/ orphanInserted
    \/ orphanFailed

Spec == Init /\ [][Next]_vars

\* the loops on their own, in one call on empty stores: an ingestion, the
\* generator of index.ts or a reindexing
InitLoops ==
    /\ documents = EmptyBag
    /\ few_shot_examples = EmptyBag
    /\ pc = [p \in Procs |-> "idle"]
    /\ req = [p \in Procs |-> NoReq]
    /\ loc = [p \in Procs |-> LocInit]
    /\ res = [p \in Procs |-> NoRes]
    /\ orphans = EmptyBag
    /\ faults = 0
    /\ nreq = MaxRequests - 1
    /\ ev = NoEv
    /\ embeddingPipeline = NoPipeline

StepLoops(p) ==
    \/ processDocument(p, BigTexts)
    \/ checkDocumentExists(p)
    \/ processEmbeddingsBatch(p)
    \/ processEmbeddingsReturn(p)
    \/ chunkInserted(p)
    \/ chunkFailed(p)
    \/ processEmbeddingsBatchDone(p)
    \/ processEmbeddingsDelay(p)
    \/ processEmbeddingsCooldown(p)
    \/ createFewShotExamples(p)
    \/ fewShotCacheCheck(p)
    \/ fewShotSingle(p)
    \/ fewShotChunk(p)
    \/ fewShotDelay(p)
    \/ fewShotCooldown(p)
    \/ fewShotJoin(p)
    \/ storeFewShotExamplesInDB(p)
    \/ reindexDocument(p, SmallTexts)
    \/ reindexDelete(p)
    \/ batchCreateEmbeddingsBatch(p)
    \/ batchCreateEmbeddingsReturn(p)
    \/ createEmbeddingDone(p)
    \/ createEmbeddingFailed(p)
    \/ batchCreateEmbeddingsBatchDone(p)
    \/ batchCreateEmbeddingsDelay(p)
    \/ batchCreateEmbeddingsCooldown(p)
    \/ reindexInsert(p)
    \/ Finish(p)

NextLoops ==
    \/ \E p \in SeqProcs : StepLoops(p)
    \/ orphanInserted
    \/ orphanFailed

\* every handler that can take a step takes one in the end: an awaited
\* backend call or timer settles, and the event loop runs the continuation;
\* a chunk operation nobody awaits settles as well
SpecFair ==
    /\ InitLoops /\ [][NextLoops]_vars
    /\ \A p \in SeqProcs : WF_vars(StepLoops(p))
    /\ WF_vars(orphanInserted \/ orphanFailed)

\* two callers at once: ingestions (with their few-shot generation) and
\* deletions of one document
NextConc ==
    \/ \E p \in Procs : StepIngest(p, ConcTexts)
    \/ orphanInserted
    \/ orphanFailed

SpecConc == Init /\ [][NextConc]_vars

\* ------------------------------------------- EmbeddingService.splitIntoChunks
\* The chunker on its own, as the loop it is, over texts given character by
\* character: the arguments are in req, i and chunks in loc, the returned
\* list in res.
MaxTextLen == 6
MaxChunkSize == 4

SPLIT == "splitIntoChunks"

\* "AAAABBBBCCCC", and the texts 1 2 3 .. n of pairwise distinct characters
ExampleText == <<1, 1, 1, 1, 2, 2, 2, 2, 3, 3, 3, 3>>
ChunkerTexts == {[k \in 1..n |-> k] : n \in 0..MaxTextLen} \cup {ExampleText}

ChunkerCalls ==
    {[op |-> SPLIT, doc |-> "", text |-> t, chunkSize |-> c, overlap |-> o] :
        t \in ChunkerTexts, c \in 1..MaxChunkSize, o \in 0..MaxChunkSize}

Max(a, b) == IF a > b THEN a ELSE b

\* String.prototype.slice(start, end): a negative index counts from the end
slice(text, start, end) ==
    LET len == Len(text)
        from == IF start < 0 THEN Max(len + start, 0) ELSE Min(start, len)
        to == IF end < 0 THEN Max(len + end, 0) ELSE Min(end, len)
    IN  IF from >= to THEN <<>> ELSE SubSeq(text, from + 1, to)

\* as the mutation of chunkStep: the overlap is not taken off the step
chunkStepNoOverlap(size, overlap) == size

\* as the mutation of chunkStep: the step is one character too long
chunkStepOffByOne(size, overlap) == size - overlap + 1

\* const step = chunkSize - overlap
chunkStep(size, overlap) == size - overlap

InitChunker ==
    /\ documents = EmptyBag
    /\ few_shot_examples = EmptyBag
    /\ pc = [p \in Procs |-> IF p \in SeqProcs THEN "sc_loop" ELSE "idle"]
    /\ \E c \in ChunkerCalls :
          req = [p \in Procs |-> IF p \in SeqProcs THEN c ELSE NoReq]
    /\ loc = [p \in Procs |-> LocInit]
    /\ res = [p \in Procs |-> NoRes]
    /\ orphans = EmptyBag
    /\ faults = 0
    /\ nreq = 0
    /\ ev = NoEv
    /\ embeddingPipeline = NoPipeline

\* one iteration: for (let i = 0; i < text.length; i += step) { end = ...;
\* chunks.push(text.slice(i, end)); if (end >= text.length) break; }
\* (an iteration is modelled while chunks has at most one window per
\* character and one more: a loop that goes beyond that never ends)
splitIntoChunksIter(p) ==
    /\ pc[p] = "sc_loop"
    /\ L(p).i < Len(req[p].text)
    /\ Len(L(p).chunks) <= Len(req[p].text)
    /\ LET text == req[p].text
           end == Min(L(p).i + req[p].chunkSize, Len(text))
           chunks == Append(L(p).chunks, slice(text, L(p).i, end))
       IN  IF end >= Len(text)
           THEN /\ SetLoc(p, [L(p) EXCEPT !.chunks = chunks])
                /\ Return(p, [status |-> "ok", chunks |-> chunks])
           ELSE /\ SetLoc(p, [L(p) EXCEPT !.chunks = chunks,
                                !.i = @ + chunkStep(req[p].chunkSize, req[p].overlap)])
                /\ UNCHANGED <<pc, res>>
    /\ UNCHANGED <<documents, few_shot_examples, req, orphans, faults, nreq, ev>>
    /\ UNCHANGED embeddingPipeline

\* the loop condition fails: return chunks
splitIntoChunksReturn(p) ==
    /\ pc[p] = "sc_loop"
    /\ L(p).i >= Len(req[p].text)
    /\ Return(p, [status |-> "ok", chunks |-> L(p).chunks])
    /\ UNCHANGED <<documents, few_shot_examples, req, loc, orphans, faults, nreq, ev>>
    /\ UNCHANGED embeddingPipeline

NextChunker ==
    \E p \in SeqProcs : splitIntoChunksIter(p) \/ splitIntoChunksReturn(p)

SpecChunker == InitChunker /\ [][NextChunker]_vars

\* ---------------------------------------------- QueryService.limitContextSize
\* A retrieved chunk is its content's length in characters (with the row's
\* other fields); `truncated` marks the copy limitContextSize cuts.
MaxContext == 3
\* if (remainingTokens > 100)
meaningfulTokens == 100

LIMIT == "limitContextSize"

ContentLengths == {0, 400, 404, 600, 1000}
TokenBudgets == {100, 101, 150, 250, 350}

RetrievedDoc(id, len) == [id |-> id, length |-> len, truncated |-> FALSE]

\* the lists of at most n retrieved chunks
ContextsOf(n) ==
    UNION {{[k \in 1..m |-> RetrievedDoc(k, f[k])] : f \in [1..m -> ContentLengths]} : m \in 0..n}

LimitCalls ==
    {[op |-> LIMIT, doc |-> "", context |-> c, maxTokens |-> t] :
        c \in ContextsOf(MaxContext), t \in TokenBudgets}

\* as the mutation of fits: the tokens already taken are not counted
fitsAlone(totalTokens, tokens, maxTokens) == tokens <= maxTokens

\* if (totalTokens + tokens <= maxTokens)
fits(totalTokens, tokens, maxTokens) == totalTokens + tokens <= maxTokens

\* {...doc, content: doc.content.substring(0, maxChars) + '...'}
truncatedDoc(doc, maxChars) ==
    [doc EXCEPT !.length = Min(doc.length, maxChars) + 3, !.truncated = TRUE]

InitLimit ==
    /\ documents = EmptyBag
    /\ few_shot_examples = EmptyBag
    /\ pc = [p \in Procs |-> IF p \in SeqProcs THEN "lc_loop" ELSE "idle"]
    /\ \E c \in LimitCalls :
          req = [p \in Procs |-> IF p \in SeqProcs THEN c ELSE NoReq]
    /\ loc = [p \in Procs |-> LocInit]
    /\ res = [p \in Procs |-> NoRes]
    /\ orphans = EmptyBag
    /\ faults = 0
    /\ nreq = 0
    /\ ev = NoEv
    /\ embeddingPipeline = NoPipeline

\* one iteration of `for (const doc of context)`: loc.i counts the chunks
\* looked at, loc.totalProcessed is totalTokens, loc.chunks is limitedContext
limitContextSizeIter(p) ==
    /\ pc[p] = "lc_loop"
    /\ L(p).i < Len(req[p].context)
    /\ LET doc == req[p].context[L(p).i + 1]
           tokens == estimateTokens(doc.length)
           totalTokens == L(p).totalProcessed
           remainingTokens == req[p].maxTokens - totalTokens
       IN  IF fits(totalTokens, tokens, req[p].maxTokens)
           THEN /\ SetLoc(p, [L(p) EXCEPT !.chunks = Append(@, doc),
                                          !.totalProcessed = @ + tokens,
                                          !.i = @ + 1])
                /\ UNCHANGED <<pc, res>>
           ELSE LET limited == IF remainingTokens > meaningfulTokens
                               THEN Append(L(p).chunks, truncatedDoc(doc, remainingTokens * 4))
                               ELSE L(p).chunks
                IN  /\ SetLoc(p, [L(p) EXCEPT !.chunks = limited])
                    /\ Return(p, [status |-> "ok", context |-> limited])
    /\ UNCHANGED <<documents, few_shot_examples, req, orphans, faults, nreq, ev>>
    /\ UNCHANGED embeddingPipeline

limitContextSizeReturn(p) ==
    /\ pc[p] = "lc_loop"
    /\ L(p).i >= Len(req[p].context)
    /\ Return(p, [status |-> "ok", context |-> L(p).chunks])
    /\ UNCHANGED <<documents, few_shot_examples, req, loc, orphans, faults, nreq, ev>>
    /\ UNCHANGED embeddingPipeline

NextLimit ==
    \E p \in SeqProcs : limitContextSizeIter(p) \/ limitContextSizeReturn(p)

SpecLimit == InitLimit /\ [][NextLimit]_vars

\* -------------------------------------------- QueryService.calculateConfidence
\* Similarities and confidences are in hundredths (0.5 is 50); a chunk may
\* have no similarity. The arithmetic is exact (no floating point).
MaxSources == 6
MaxPairSources == 2

CONF == "calculateConfidence"

NoSimilarity == [has |-> FALSE, value |-> 0]
Similarity(v) == [has |-> TRUE, value |-> v]
Similarities == {NoSimilarity, Similarity(0), Similarity(30), Similarity(100)}
ConfidenceLengths == {0, 500, 1500}

ScoredDoc(len, sim) == [length |-> len, similarity |-> sim]

\* the contexts of exactly m chunks, all of one content length
ScoredContexts(m) ==
    {[k \in 1..m |-> ScoredDoc(len, f[k])] :
        len \in ConfidenceLengths, f \in [1..m -> Similarities]}

\* the contexts of exactly m chunks that are all alike
UniformContexts(m) ==
    {[k \in 1..m |-> ScoredDoc(len, sim)] :
        len \in ConfidenceLengths, sim \in Similarities}

\* one call, or two calls on contexts of the same size and content lengths
ConfidenceCalls ==
    {[op |-> CONF, doc |-> "", contexts |-> <<c>>] :
        c \in UNION ({UniformContexts(m) : m \in 0..MaxSources}
                        \cup {ScoredContexts(m) : m \in 0..MaxPairSources})}
    \cup
    {[op |-> CONF, doc |-> "", contexts |-> <<c.a, c.b>>] :
        c \in UNION {{d \in [a : ScoredContexts(m), b : ScoredContexts(m)] :
                        \A k \in 1..m : d.a[k].length = d.b[k].length} : m \in 1..MaxPairSources}}

\* doc.similarity || 0.5: undefined is falsy, and so is 0
similarityOrDefault(sim) == IF sim.has /\ sim.value # 0 THEN sim.value ELSE 50

RECURSIVE sumSimilarity(_)
sumSimilarity(context) ==
    IF context = <<>> THEN 0
    ELSE similarityOrDefault(Head(context).similarity) + sumSimilarity(Tail(context))

RECURSIVE sumContentLength(_)
sumContentLength(context) ==
    IF context = <<>> THEN 0
    ELSE Head(context).length + sumContentLength(Tail(context))

\* avgSimilarity * 0.5 + sourceCount * 0.3 + contentScore * 0.2, times 100, as
\* the fraction confidenceNum / (50 * n)
confidenceNum(sumSim, n, sumLen) ==
    25 * sumSim + 300 * n * Min(n, 5)
        + (IF sumLen >= 1000 * n THEN 1000 * n ELSE sumLen)

\* Math.round(x): floor(x + 1/2)
roundFraction(num, den) == (2 * num + den) \div (2 * den)

calculateConfidence(context) ==
    IF context = <<>> THEN 0
    ELSE LET n == Len(context)
         IN  roundFraction(confidenceNum(sumSimilarity(context), n,
                                         sumContentLength(context)), 50 * n)

InitConfidence ==
    /\ documents = EmptyBag
    /\ few_shot_examples = EmptyBag
    /\ pc = [p \in Procs |-> IF p \in SeqProcs THEN "cc_call" ELSE "idle"]
    /\ \E c \in ConfidenceCalls :
          req = [p \in Procs |-> IF p \in SeqProcs THEN c ELSE NoReq]
    /\ loc = [p \in Procs |-> LocInit]
    /\ res = [p \in Procs |-> NoRes]
    /\ orphans = EmptyBag
    /\ faults = 0
    /\ nreq = 0
    /\ ev = NoEv
    /\ embeddingPipeline = NoPipeline

\* one call of calculateConfidence, on the next context of the request
calculateConfidenceCall(p) ==
    /\ pc[p] = "cc_call"
    /\ req[p].op = CONF
    /\ L(p).i < Len(req[p].contexts)
    /\ LET c == calculateConfidence(req[p].contexts[L(p).i + 1])
           out == L(p).chunks \o <<c>>
       IN  /\ loc' = [loc EXCEPT ![p].i = @ + 1, ![p].chunks = out]
           /\ IF L(p).i + 1 = Len(req[p].contexts)
              THEN /\ pc' = [pc EXCEPT ![p] = "done"]
                   /\ res' = [res EXCEPT ![p] = [status |-> "ok", confidences |-> out]]
              ELSE UNCHANGED <<pc, res>>
    /\ UNCHANGED <<documents, few_shot_examples, req, orphans, faults, nreq, ev>>
    /\ UNCHANGED embeddingPipeline

NextConfidence == \E p \in SeqProcs : calculateConfidenceCall(p)

SpecConfidence == InitConfidence /\ [][NextConfidence]_vars

\* ------------------------------------------------ QueryService / similarity search
\* One query against a store. The embedding column of a stored chunk holds its
\* cosine similarity to the query's embedding, in hundredths.
MaxStoreChunks == 3
MaxLimit == 2

queryMatchThreshold == 50
queryMatchCountFiltered == 10
queryMatchCount == 5
queryContextTokens == 15000
maxExampleTokens == 3000
maxRequestTokens == 50000
reducedContextTokens == 8000
chunkMatchThreshold == 30
\* lengths of the fixed text of the two prompts, of the text around examples
\* that were cut (heading and notice) and of the question: a short one, and
\* one that alone is beyond maxRequestTokens
systemPromptLength == 591
userMessageLength == 65
examplesNoticeLength == 97
queryLength == 40
longQueryLength == 200000
QueryLengths == {queryLength, longQueryLength}

QUERY == "queryDocuments"
SEARCHCHUNKS == "searchSimilarChunks"
SEARCHEMB == "searchSimilarEmbeddings"
QueryOps == {QUERY, SEARCHCHUNKS, SEARCHEMB}

OtherDoc == "other.pdf"
\* documentName: "" when the argument is left out
DocumentNames == {""} \cup Docs \cup {OtherDoc}
StoredSimilarities == {20, 40, 90}
SearchThresholds == {40, 50}

\* the rows a store may hold: chunks 0.. of the document, chunk 0 of another
StoreSlots ==
    {[document_name |-> d, chunk_index |-> k] : d \in Docs, k \in 0..(MaxStoreChunks - 1)}
    \cup {[document_name |-> OtherDoc, chunk_index |-> 0]}

\* a stored chunk whose embedding has the given similarity to the query
ScoredRow(d, index, sim) == [ChunkRow(d, index, chunkSize) EXCEPT !.embedding = sim]

QueryStores ==
    UNION {{SetToBag({ScoredRow(s.document_name, s.chunk_index, f[s]) : s \in slots}) :
                f \in [slots -> StoredSimilarities]} : slots \in SUBSET StoreSlots}

QueryExampleStores == {EmptyBag} \cup {SetToBag({ExampleRow(d, <<Output(1, "ok")>>)}) : d \in Docs}

QueryCalls ==
    {[op |-> QUERY, doc |-> d, text |-> q, threshold |-> queryMatchThreshold,
      limit |-> IF d # "" THEN queryMatchCountFiltered ELSE queryMatchCount] :
        d \in DocumentNames, q \in QueryLengths}
    \cup
    {[op |-> SEARCHCHUNKS, doc |-> d, text |-> queryLength, threshold |-> chunkMatchThreshold,
      limit |-> n] : d \in DocumentNames, n \in 1..MaxLimit}
    \cup
    {[op |-> SEARCHEMB, doc |-> "", text |-> queryLength, threshold |-> t, limit |-> n] :
        t \in SearchThresholds, n \in 1..MaxLimit}

\* a row of the table with each of its copies
StoredCopies(table) ==
    UNION {{[row |-> r, copy |-> k] : k \in 1..table[r]} : r \in DOMAIN table}

\* a row as match_documents returns it
MatchedRow(r) ==
    [document_name |-> r.document_name, chunk_index |-> r.chunk_index,
     length |-> r.content, truncated |-> FALSE, similarity |-> Similarity(r.embedding)]

\* the rpc match_documents(query_embedding, match_threshold, match_count): the
\* rows not below the threshold by descending similarity, match_count at most;
\* a set, one list for each order of rows of equal similarity
match_documents(table, match_threshold, match_count) ==
    LET eligible == {c \in StoredCopies(table) : c.row.embedding >= match_threshold}
        n == Cardinality(eligible)
        ranked == {s \in [1..n -> eligible] :
                     /\ \A i, j \in 1..n : i # j => s[i] # s[j]
                     /\ \A i \in 1..(n - 1) : s[i].row.embedding >= s[i + 1].row.embedding}
    IN  {[k \in 1..Min(match_count, n) |-> MatchedRow(s[k].row)] : s \in ranked}

\* as the mutation of filterByDocument: the filter keeps the other documents
filterByDocumentInverted(data, documentName) ==
    IF documentName # ""
    THEN SelectSeq(data, LAMBDA doc : doc.document_name # documentName)
    ELSE data

\* as the mutation of filterByDocument: the kept rows come out in reverse
filterByDocumentReversed(data, documentName) ==
    LET kept == IF documentName # ""
                THEN SelectSeq(data, LAMBDA doc : doc.document_name = documentName)
                ELSE data
    IN  [k \in 1..Len(kept) |-> kept[Len(kept) + 1 - k]]

\* if (documentName) data.filter(doc => doc.document_name === documentName)
filterByDocument(data, documentName) ==
    IF documentName # ""
    THEN SelectSeq(data, LAMBDA doc : doc.document_name = documentName)
    ELSE data

RECURSIVE limitContextFrom(_, _, _, _)
limitContextFrom(context, totalTokens, limitedContext, maxTokens) ==
    IF context = <<>> THEN limitedContext
    ELSE LET doc == Head(context)
             tokens == estimateTokens(doc.length)
             remainingTokens == maxTokens - totalTokens
         IN  IF fits(totalTokens, tokens, maxTokens)
             THEN limitContextFrom(Tail(context), totalTokens + tokens,
                                   Append(limitedContext, doc), maxTokens)
             ELSE IF remainingTokens > meaningfulTokens
                  THEN Append(limitedContext, truncatedDoc(doc, remainingTokens * 4))
                  ELSE limitedContext

limitContextSize(context, maxTokens) == limitContextFrom(context, 0, <<>>, maxTokens)

\* context.map(doc => doc.content).join('\n\n').length
RECURSIVE contextTextLength(_)
contextTextLength(context) ==
    IF context = <<>> THEN 0
    ELSE Head(context).length + (IF Len(context) > 1 THEN 2 ELSE 0)
            + contextTextLength(Tail(context))

\* estimateTokens(systemPrompt) + estimateTokens(userMessage); examples in the
\* prompt are counted at the length they are cut to
totalEstimatedTokens(query, context, withExamples) ==
    estimateTokens(systemPromptLength
        + (IF withExamples THEN maxExampleTokens * 4 + examplesNoticeLength ELSE 0))
    + estimateTokens(userMessageLength + contextTextLength(context) + query)

\* context.map(doc => ({content, document_name, chunk_index, similarity}))
sourceOf(doc) ==
    [content |-> Min(doc.length, 200) + 3,
     document_name |-> IF doc.document_name # "" THEN doc.document_name ELSE "Unknown",
     chunk_index |-> doc.chunk_index,
     similarity |-> IF doc.similarity.has THEN doc.similarity.value ELSE 0]

NoAnswer == "I couldn't generate an answer."
GeneratedAnswer == "generated"
AnswerOutcomes == {"ok"} \cup (IF faults < MaxFaults THEN {"empty", "error"} ELSE {})

\* {answer, sources, confidence} of generateAnswer over the context it used
QueryResult(answer, context) ==
    [status |-> "ok", answer |-> answer,
     sources |-> [k \in 1..Len(context) |-> sourceOf(context[k])],
     confidence |-> calculateConfidence(context)]

InitQuery ==
    /\ documents \in QueryStores
    /\ few_shot_examples \in QueryExampleStores
    /\ \E c \in QueryCalls :
          /\ req = [p \in Procs |-> IF p \in SeqProcs THEN c ELSE NoReq]
          /\ pc = [p \in Procs |-> IF p \notin SeqProcs THEN "idle"
                                    ELSE IF c.op = SEARCHEMB THEN "q_match" ELSE "q_embed"]
    /\ loc = [p \in Procs |-> LocInit]
    /\ res = [p \in Procs |-> NoRes]
    /\ orphans = EmptyBag
    /\ faults = 0
    /\ nreq = 0
    /\ ev = NoEv
    /\ embeddingPipeline = NoPipeline

\* embeddingModel(query, ...): the query's embedding, or the call throws
embedQuery(p) ==
    /\ pc[p] = "q_embed"
    /\ req[p].op \in {QUERY, SEARCHCHUNKS}
    /\ \E o \in QueryOutcomes :
          /\ Charge(o)
          /\ IF o = "ok" THEN Goto(p, "q_match") /\ UNCHANGED res ELSE Throw(p)
    /\ UNCHANGED <<documents, few_shot_examples, req, loc, orphans, nreq, ev>>
    /\ UNCHANGED embeddingPipeline

\* queryDocuments: the rpc, the document filter and limitContextSize
queryDocumentsMatch(p) ==
    /\ pc[p] = "q_match"
    /\ req[p].op = QUERY
    /\ \E o \in QueryOutcomes :
          /\ Charge(o)
          /\ IF o = "ok"
             THEN \E matchData \in match_documents(documents, req[p].threshold, req[p].limit) :
                     LET context == filterByDocument(matchData, req[p].doc)
                         limitedContext == limitContextSize(context, queryContextTokens)
                     IN  /\ SetLoc(p, [L(p) EXCEPT !.chunks = limitedContext])
                         /\ Goto(p, "ga_lookup")
                         /\ UNCHANGED res
             ELSE Throw(p) /\ UNCHANGED loc
    /\ UNCHANGED <<documents, few_shot_examples, req, orphans, nreq, ev>>
    /\ UNCHANGED embeddingPipeline

\* as the mutation of generateAnswerExamples: when the lookup finds nothing,
\* examples are generated and stored
generateAnswerExamplesGenerate(p) ==
    /\ pc[p] = "ga_lookup"
    /\ IF req[p].doc # ""
       THEN \E o \in QueryOutcomes :
               /\ Charge(o)
               /\ LET rows == RowsOf(few_shot_examples, req[p].doc)
                      found == o = "ok" /\ BagCardinality(rows) = 1
                  IN  /\ SetLoc(p, [L(p) EXCEPT !.fewShotExamples =
                             IF found THEN (CHOOSE r \in DOMAIN rows : TRUE).few_shot_examples
                             ELSE <<Output(1, "ok")>>])
                      /\ few_shot_examples' =
                             IF found THEN few_shot_examples
                             ELSE InsertRow(few_shot_examples,
                                            ExampleRow(req[p].doc, <<Output(1, "ok")>>))
       ELSE UNCHANGED <<faults, loc, few_shot_examples>>
    /\ Goto(p, "ga_complete")
    /\ UNCHANGED <<documents, req, res, orphans, nreq, ev>>
    /\ UNCHANGED embeddingPipeline

\* generateAnswer: the few-shot lookup (.single()), made when documentName is
\* given; loc.fewShotExamples is the text put in the prompt, <<>> for none
generateAnswerExamples(p) ==
    /\ pc[p] = "ga_lookup"
    /\ IF req[p].doc # ""
       THEN \E o \in QueryOutcomes :
               /\ Charge(o)
               /\ LET rows == RowsOf(few_shot_examples, req[p].doc)
                      found == o = "ok" /\ BagCardinality(rows) = 1
                  IN  SetLoc(p, [L(p) EXCEPT !.fewShotExamples =
                         IF found THEN (CHOOSE r \in DOMAIN rows : TRUE).few_shot_examples
                         ELSE <<>>])
       ELSE UNCHANGED <<faults, loc>>
    /\ Goto(p, "ga_complete")
    /\ UNCHANGED <<documents, few_shot_examples, req, res, orphans, nreq, ev>>
    /\ UNCHANGED embeddingPipeline

\* as the mutation of generateAnswerComplete: the request is sent over the
\* context as it came, whatever its estimated size
generateAnswerCompleteNoFallback(p) ==
    /\ pc[p] = "ga_complete"
    /\ LET used == L(p).chunks
       IN  \E o \in AnswerOutcomes :
              /\ Charge(o)
              /\ SetLoc(p, [L(p) EXCEPT !.chunks = used, !.completionCalled = TRUE])
              /\ IF o = "error" THEN Throw(p)
                 ELSE Return(p, QueryResult(IF o = "ok" THEN GeneratedAnswer ELSE NoAnswer, used))
    /\ UNCHANGED <<documents, few_shot_examples, req, orphans, nreq, ev>>
    /\ UNCHANGED embeddingPipeline

\* as the mutation of generateAnswerComplete: the result is computed over the
\* context as it came, also when the reduced one was sent
generateAnswerCompleteFirstContext(p) ==
    /\ pc[p] = "ga_complete"
    /\ LET context == L(p).chunks
           used == IF totalEstimatedTokens(req[p].text, context,
                                           ~IsEmptyText(L(p).fewShotExamples))
                          > maxRequestTokens
                   THEN limitContextSize(context, reducedContextTokens)
                   ELSE context
       IN  \E o \in AnswerOutcomes :
              /\ Charge(o)
              /\ SetLoc(p, [L(p) EXCEPT !.chunks = used, !.completionCalled = TRUE])
              /\ IF o = "error" THEN Throw(p)
                 ELSE Return(p, QueryResult(IF o = "ok" THEN GeneratedAnswer ELSE NoAnswer, context))
    /\ UNCHANGED <<documents, few_shot_examples, req, orphans, nreq, ev>>
    /\ UNCHANGED embeddingPipeline

\* generateAnswer: the completion request over the context (reduced once more
\* when the request is estimated above maxRequestTokens) and the result
generateAnswerComplete(p) ==
    /\ pc[p] = "ga_complete"
    /\ LET context == L(p).chunks
           used == IF totalEstimatedTokens(req[p].text, context,
                                           ~IsEmptyText(L(p).fewShotExamples))
                          > maxRequestTokens
                   THEN limitContextSize(context, reducedContextTokens)
                   ELSE context
       IN  \E o \in AnswerOutcomes :
              /\ Charge(o)
              /\ SetLoc(p, [L(p) EXCEPT !.chunks = used, !.completionCalled = TRUE])
              /\ IF o = "error" THEN Throw(p)
                 ELSE Return(p, QueryResult(IF o = "ok" THEN GeneratedAnswer ELSE NoAnswer, used))
    /\ UNCHANGED <<documents, few_shot_examples, req, orphans, nreq, ev>>
    /\ UNCHANGED embeddingPipeline

\* searchSimilarChunks: the rpc and the document filter
searchSimilarChunksMatch(p) ==
    /\ pc[p] = "q_match"
    /\ req[p].op = SEARCHCHUNKS
    /\ \E o \in QueryOutcomes :
          /\ Charge(o)
          /\ IF o = "ok"
             THEN \E data \in match_documents(documents, req[p].threshold, req[p].limit) :
                     Return(p, [status |-> "ok", results |-> filterByDocument(data, req[p].doc)])
             ELSE Throw(p)
    /\ UNCHANGED <<documents, few_shot_examples, req, loc, orphans, nreq, ev>>
    /\ UNCHANGED embeddingPipeline

\* searchSimilarEmbeddings: the rpc, `return data || []`
searchSimilarEmbeddings(p) ==
    /\ pc[p] = "q_match"
    /\ req[p].op = SEARCHEMB
    /\ \E o \in QueryOutcomes :
          /\ Charge(o)
          /\ IF o = "ok"
             THEN \E data \in match_documents(documents, req[p].threshold, req[p].limit) :
                     Return(p, [status |-> "ok", results |-> data])
             ELSE Throw(p)
    /\ UNCHANGED <<documents, few_shot_examples, req, loc, orphans, nreq, ev>>
    /\ UNCHANGED embeddingPipeline

NextQuery ==
    \E p \in SeqProcs :
        \/ embedQuery(p)
        \/ queryDocumentsMatch(p)
        \/ generateAnswerExamples(p)
        \/ generateAnswerComplete(p)
        \/ searchSimilarChunksMatch(p)
        \/ searchSimilarEmbeddings(p)

SpecQuery == InitQuery /\ [][NextQuery]_vars

\* ------------------------------------------------------ splitTextForTokenLimit
\* index.ts and documentService.ts hold the same function. A text is the
\* sequence of its characters: the texts 1 2 3 .. n of pairwise distinct
\* characters.
MaxSplitTextLen == 12
MaxSplitTokens == 3

SPLITTOKENS == "splitTextForTokenLimit"

SplitTexts == {[k \in 1..n |-> k] : n \in 0..MaxSplitTextLen}

SplitCalls ==
    {[op |-> SPLITTOKENS, doc |-> "", text |-> t, maxTokens |-> m] :
        t \in SplitTexts, m \in 1..MaxSplitTokens}

InitSplitTokens ==
    /\ documents = EmptyBag
    /\ few_shot_examples = EmptyBag
    /\ pc = [p \in Procs |-> IF p \in SeqProcs THEN "st_loop" ELSE "idle"]
    /\ \E c \in SplitCalls :
          req = [p \in Procs |-> IF p \in SeqProcs THEN c ELSE NoReq]
    /\ loc = [p \in Procs |-> LocInit]
    /\ res = [p \in Procs |-> NoRes]
    /\ orphans = EmptyBag
    /\ faults = 0
    /\ nreq = 0
    /\ ev = NoEv
    /\ embeddingPipeline = NoPipeline

\* as the mutation of maxCharsFor: the budget in tokens is taken for a
\* number of characters
maxCharsForTokens(maxTokens) == maxTokens

\* const maxChars = maxTokens * 4
maxCharsFor(maxTokens) == maxTokens * 4

\* one iteration: for (let i = 0; i < text.length; i += maxChars)
\*                    chunks.push(text.slice(i, i + maxChars))
splitTextForTokenLimitIter(p) ==
    /\ pc[p] = "st_loop"
    /\ L(p).i < Len(req[p].text)
    /\ LET maxChars == maxCharsFor(req[p].maxTokens)
       IN  SetLoc(p, [L(p) EXCEPT
                  !.chunks = Append(@, slice(req[p].text, L(p).i, L(p).i + maxChars)),
                  !.i = @ + maxChars])
    /\ UNCHANGED <<documents, few_shot_examples, pc, req, res, orphans, faults, nreq, ev>>
    /\ UNCHANGED embeddingPipeline

\* the loop condition fails: return chunks
splitTextForTokenLimitReturn(p) ==
    /\ pc[p] = "st_loop"
    /\ L(p).i >= Len(req[p].text)
    /\ Return(p, [status |-> "ok", chunks |-> L(p).chunks])
    /\ UNCHANGED <<documents, few_shot_examples, req, loc, orphans, faults, nreq, ev>>
    /\ UNCHANGED embeddingPipeline

\* the function alone, then the generator of index.ts, which calls it for a
\* text beyond its budget and sends one completion request per block
NextSplitTokens ==
    \E p \in SeqProcs :
        \/ splitTextForTokenLimitIter(p)
        \/ splitTextForTokenLimitReturn(p)
        \/ Finish(p)
        \/ createFewShotExamples(p)
        \/ fewShotCacheCheck(p)
        \/ fewShotSingle(p)
        \/ fewShotChunk(p)
        \/ fewShotDelay(p)
        \/ fewShotCooldown(p)
        \/ fewShotJoin(p)
        \/ storeFewShotExamplesInDB(p)

SpecSplitTokens == InitSplitTokens /\ [][NextSplitTokens]_vars

\* -------------------------------------------------- config.getEmbeddingPipeline
\* Callers of getEmbeddingPipeline run at once, as the chunk operations of one
\* batch do. A call runs without interruption up to an await.
MaxPipelineCalls == 4

GETPIPELINE == "getEmbeddingPipeline"

InitPipeline ==
    /\ documents = EmptyBag
    /\ few_shot_examples = EmptyBag
    /\ pc = [p \in Procs |-> "idle"]
    /\ req = [p \in Procs |-> NoReq]
    /\ loc = [p \in Procs |-> LocInit]
    /\ res = [p \in Procs |-> NoRes]
    /\ orphans = EmptyBag
    /\ faults = 0
    /\ nreq = 0
    /\ ev = NoEv
    /\ embeddingPipeline = NoPipeline

\* if (!embeddingPipeline)
pipelineMissing(pipeline) == pipeline.value = 0

\* the call up to its first await: the memoized model is returned, or the
\* import of the library is started
getEmbeddingPipeline(p) ==
    /\ pc[p] = "idle"
    /\ nreq < MaxPipelineCalls
    /\ req' = [req EXCEPT ![p] = [op |-> GETPIPELINE, doc |-> "", text |-> 0]]
    /\ nreq' = nreq + 1
    /\ SetLoc(p, LocInit)
    /\ IF pipelineMissing(embeddingPipeline)
       THEN Goto(p, "gp_import") /\ UNCHANGED res
       ELSE Return(p, [status |-> "ok", handle |-> embeddingPipeline.value])
    /\ UNCHANGED <<documents, few_shot_examples, orphans, faults, ev, embeddingPipeline>>

\* await importTransformers(): then transformers.pipeline(...) is called, or
\* the catch block throws
getEmbeddingPipelineImported(p) ==
    /\ pc[p] = "gp_import"
    /\ \E o \in QueryOutcomes :
          /\ Charge(o)
          /\ IF o = "ok" THEN Goto(p, "gp_pipeline") /\ UNCHANGED res ELSE Throw(p)
    /\ UNCHANGED <<documents, few_shot_examples, req, loc, orphans, nreq, ev, embeddingPipeline>>

\* embeddingPipeline = await transformers.pipeline(...); return embeddingPipeline
\* (or the catch block throws): each call of pipeline() builds a model of its own
getEmbeddingPipelineLoaded(p) ==
    /\ pc[p] = "gp_pipeline"
    /\ \E o \in QueryOutcomes :
          /\ Charge(o)
          /\ IF o = "ok"
             THEN LET model == embeddingPipeline.built + 1
                  IN  /\ embeddingPipeline' = [value |-> model, built |-> model]
                      /\ Return(p, [status |-> "ok", handle |-> model])
             ELSE Throw(p) /\ UNCHANGED embeddingPipeline
    /\ UNCHANGED <<documents, few_shot_examples, req, loc, orphans, nreq, ev>>

NextPipeline ==
    \E p \in Procs :
        \/ getEmbeddingPipeline(p)
        \/ getEmbeddingPipelineImported(p)
        \/ getEmbeddingPipelineLoaded(p)
        \/ Finish(p)

SpecPipeline == InitPipeline /\ [][NextPipeline]_vars

\* ==================================================================== claims
Done(p, op) == pc[p] = "done" /\ req[p].op = op
Succeeded(p) == res[p].status = "ok"
NothingInFlight == orphans = EmptyBag /\ \A p \in Procs : L(p).pending = {}

\* the chunk rows of d carry pairwise distinct chunk_index values, exactly
\* 0..n-1, and the row with chunk_index k holds the k-th window of the text
ChunkIndexContiguous(d) ==
    LET rows == RowsOf(documents, d)
        n == BagCardinality(rows)
    IN  /\ \A r \in DOMAIN rows : rows[r] = 1
        /\ Cardinality({r.chunk_index : r \in DOMAIN rows}) = n
        /\ {r.chunk_index : r \in DOMAIN rows} = 0..(n - 1)
        /\ \A r \in DOMAIN rows : r.content.start = r.chunk_index * (chunkSize - chunkOverlap)

\* the run found no chunk row and no running chunk operation at its call
FreshAtCall(p) == \A c \in L(p).atCall : c.count = 0 /\ c.quiet

\* C1: chunk_index is unique and contiguous from 0 per document_name, in
\* chunking order. Read where the claim is at its strongest: after a
\* processDocument run that started on a store with no row of the document
\* has returned its result and every chunk operation it started has ended.
C1_ChunkIndexUniqueContiguous ==
    \A p \in Procs :
        (Done(p, PROCESS) /\ Succeeded(p) /\ FreshAtCall(p) /\ NothingInFlight)
            => ChunkIndexContiguous(req[p].doc)

\* C2: a processDocument call for a document that has chunk rows (and no chunk
\* operation still running) returns {chunksProcessed: that number of rows,
\* fewShotExamplesGenerated: true} without an embedding call, a completion
\* call or a write.
C2_ExistingDocumentShortCircuits ==
    \A p \in Procs :
        Done(p, PROCESS) =>
            \A c \in L(p).atCall :
                (c.count > 0 /\ c.quiet) =>
                    /\ Succeeded(p)
                    /\ res[p].count = c.count
                    /\ res[p].flag
                    /\ ~L(p).embedCalled
                    /\ ~L(p).completionCalled
                    /\ ~L(p).wrote

\* the call met no backend anomaly of its own
NoAnomalySinceCall(p) == \A c \in L(p).atCall : c.faults = faults

\* C3: the second of two identical processDocument calls, made after the first
\* succeeded, reports the chunksProcessed the first reported and writes
\* nothing (the second call itself meeting no error).
C3_SecondIngestionIdempotent ==
    \A p \in Procs :
        (Done(p, PROCESS) /\ L(p).first # {} /\ NoAnomalySinceCall(p)) =>
            /\ Succeeded(p)
            /\ res[p].count \in L(p).first
            /\ ~L(p).wrote


\* the chunk_index values of the document's text: 0 .. n-1
ChunkIndexes(p) == 0..(Len(splitText(req[p].text)) - 1)
StoredIndexes(d) == {r.chunk_index : r \in DOMAIN RowsOf(documents, d)}

\* the run of p went through processEmbeddings (no early return)
Ingested(p) == L(p).inserted # {}

\* C4 (as the code has it): a processDocument run that went through
\* processEmbeddings and returns a result has inserted every chunk of the text
\* and reports their number; fewShotExamplesGenerated is true only when
\* an example record is there at the return, and false only when the generator
\* caught an error (the result is returned all the same); only a failure in
\* the chunk stage ends the call with an error, before any completion request.
C4_ResultAfterAllChunksFewShotFlagged ==
    \A p \in SeqProcs :
        Done(p, PROCESS) =>
            /\ (Succeeded(p) /\ Ingested(p)) =>
                  /\ L(p).inserted = ChunkIndexes(p)
                  /\ ChunkIndexes(p) \subseteq StoredIndexes(req[p].doc)
                  /\ res[p].count = Len(splitText(req[p].text))
                  /\ res[p].flag => CountOf(few_shot_examples, req[p].doc) >= 1
                  /\ ~res[p].flag => L(p).err \in ErrorCodes \cup {StorageError}
                  /\ L(p).completionCalled \/ res[p].flag
            /\ ~Succeeded(p) =>
                  /\ res[p].status = "error"
                  /\ L(p).err = OtherError
                  /\ ~L(p).completionCalled

\* a run that stored every chunk, met an error in the few-shot generator and
\* returned a result with fewShotExamplesGenerated false
C4_Witness ==
    \E p \in SeqProcs :
        /\ Done(p, PROCESS) /\ Succeeded(p) /\ Ingested(p)
        /\ ~res[p].flag
        /\ L(p).completionCalled

\* C4 (as stated): whenever processDocument returns a result, every chunk of
\* the text is stored and few-shot generation has completed (an example record
\* is there); a failure of any part ends the call with an error.
C4_AllOrNothing ==
    \A p \in SeqProcs :
        (Done(p, PROCESS) /\ Succeeded(p) /\ Ingested(p)) =>
            /\ ChunkIndexes(p) \subseteq StoredIndexes(req[p].doc)
            /\ CountOf(few_shot_examples, req[p].doc) >= 1
            /\ L(p).err = "none"

\* the last step was the rejection of a batch of processEmbeddings with this code
BatchRejected(code) == ev.kind = "chunk" /\ ev.code = code

RateLimited(kind) == ev.kind = kind /\ ev.code = RateLimit

C7_IngestionsNotMutuallyExcluded ==
    \A p \in Procs :
        /\ (pc[p] = "pd_check" /\ CountOf(documents, req[p].doc) = 0)
              => ENABLED (checkDocumentExists(p) /\ pc'[p] = "pe_loop")
        /\ (pc[p] = "pe_await" /\ L(p).pending # {})
              => ENABLED (chunkInserted(p)
                            /\ BagCardinality(documents') = BagCardinality(documents) + 1)

\* two requests for one document, both called on an empty store, no backend
\* anomaly, have both inserted the same chunk_index: the row is there twice
C7_Witness ==
    /\ faults = 0
    /\ orphans = EmptyBag
    /\ \E r \in DOMAIN documents :
          /\ documents[r] >= 2
          /\ \A p \in Procs :
                /\ req[p].op = PROCESS
                /\ req[p].doc = r.document_name
                /\ FreshAtCall(p)
                /\ r.chunk_index \in L(p).inserted

GenOps == {PROCESS, CFE, OPT}

\* the lookup met exactly one record of the document, its text not empty,
\* and the query went through
LookupHit(s) ==
    /\ s.outcome = "ok"
    /\ BagCardinality(s.rows) = 1
    /\ \A r \in DOMAIN s.rows : ~IsEmptyText(r.few_shot_examples)

C9_AtMostOneExampleRecord ==
    faults = 0 => \A d \in Docs : CountOf(few_shot_examples, d) <= 1

\* the text of the one record the lookup met
PersistedText(s) == (CHOOSE r \in DOMAIN s.rows : TRUE).few_shot_examples

StoreFailed(p) == pc[p] = "done" /\ req[p].op \in GenOps /\ L(p).err = StorageError

\* C11 (as the code has it): when the insert of the generated examples fails,
\* createFewShotExamples and createFewShotExamplesOptimized log the error and
\* return the generated text, with nothing persisted; in DocumentService the
\* insert error is rethrown, generateFewShotExamples catches it and answers
\* false (the text is dropped), and processDocument still returns its result,
\* with fewShotExamplesGenerated false.
C11_StoreFailureTextReturnedOrFalse ==
    \A p \in SeqProcs :
        StoreFailed(p) =>
            /\ res[p].status = "ok"
            /\ L(p).completionCalled
            /\ \A s \in L(p).seen : RowsOf(few_shot_examples, req[p].doc) = s.rows
            /\ IF req[p].op = PROCESS
               THEN /\ ~res[p].flag
                    /\ res[p].examples = <<>>
                    /\ res[p].count = L(p).totalProcessed
               ELSE res[p].examples = L(p).fewShotExamples

\* createFewShotExamples generated a text, its insert failed, and the text
\* was returned
C11_Witness ==
    \E p \in SeqProcs :
        /\ StoreFailed(p)
        /\ req[p].op = CFE
        /\ res[p].status = "ok"
        /\ ~IsEmptyText(res[p].examples)
        /\ CountOf(few_shot_examples, req[p].doc) = 0

\* C11 (as stated): when the insert of the generated examples fails, the
\* generation call still reports success to its caller: the generated text,
\* or true from generateFewShotExamples.
C11_StoreFailureStillSuccess ==
    \A p \in SeqProcs :
        StoreFailed(p) =>
            /\ res[p].status = "ok"
            /\ IF req[p].op = PROCESS
               THEN res[p].flag
               ELSE res[p].examples = L(p).fewShotExamples


\* the chunker has returned for a call with overlap < chunkSize
ChunkerDone(p) ==
    /\ pc[p] = "done" /\ req[p].op = SPLIT
    /\ req[p].overlap < req[p].chunkSize

\* where window k (from 1) starts, and where it ends
WindowStart(p, k) == (k - 1) * (req[p].chunkSize - req[p].overlap)
WindowEnd(p, k) == Min(WindowStart(p, k) + req[p].chunkSize, Len(req[p].text))

\* C12: with overlap < chunkSize, splitIntoChunks returns windows such that
\* window i (from 0) starts at character i*(chunkSize-overlap) and spans
\* min(chunkSize, remaining) characters, the last window being the first one
\* that reaches the end of the text (no window for the empty text); the
\* spans are those reindexDocument stores with chunk_index i; "AAAABBBBCCCC"
\* with chunkSize 4 and overlap 0 gives "AAAA", "BBBB", "CCCC".
C12_WindowsAtMultiplesOfStep ==
    \A p \in SeqProcs :
        ChunkerDone(p) =>
            LET text == req[p].text
                chunks == res[p].chunks
                n == Len(chunks)
            IN  /\ res[p].status = "ok"
                /\ (n = 0) <=> (Len(text) = 0)
                /\ \A k \in 1..n :
                      /\ WindowStart(p, k) < Len(text)
                      /\ chunks[k] = SubSeq(text, WindowStart(p, k) + 1, WindowEnd(p, k))
                      /\ Len(chunks[k]) = Min(req[p].chunkSize, Len(text) - WindowStart(p, k))
                      /\ (k < n) => WindowStart(p, k) + req[p].chunkSize < Len(text)
                      /\ (k = n) => WindowStart(p, k) + req[p].chunkSize >= Len(text)
                /\ LET spans == splitIntoChunks(Len(text), req[p].chunkSize, req[p].overlap)
                   IN  /\ Len(spans) = n
                       /\ \A k \in 1..n :
                             /\ spans[k].start = WindowStart(p, k)
                             /\ spans[k].end = WindowEnd(p, k)
                /\ (text = ExampleText /\ req[p].chunkSize = 4 /\ req[p].overlap = 0)
                      => chunks = << <<1, 1, 1, 1>>, <<2, 2, 2, 2>>, <<3, 3, 3, 3>> >>

\* "AAAABBBBCCCC" split with chunkSize 4 and overlap 0: three chunks
C12_Witness ==
    \E p \in SeqProcs :
        /\ ChunkerDone(p)
        /\ req[p].text = ExampleText /\ req[p].chunkSize = 4 /\ req[p].overlap = 0
        /\ Len(res[p].chunks) = 3

\* C13: called with overlap >= chunkSize the chunker fails fast with an error
\* and does not hang: on a text longer than chunkSize, once the first window
\* is pushed the call has ended with an error.
C13_ChunkerFailsFastOnBadOverlap ==
    \A p \in SeqProcs :
        (/\ req[p].op = SPLIT
         /\ req[p].overlap >= req[p].chunkSize
         /\ Len(req[p].text) > req[p].chunkSize
         /\ L(p).chunks # <<>>)
            => pc[p] = "done" /\ res[p].status = "error"

RECURSIVE Concat(_)
Concat(seqs) == IF seqs = <<>> THEN <<>> ELSE Head(seqs) \o Concat(Tail(seqs))

\* chunk k without its first n characters
DropFirst(chunk, n) == SubSeq(chunk, n + 1, Len(chunk))

\* C14: with chunkSize > overlap > 0 the chunks cover the text with no gap:
\* every character of the text is in some chunk, and the first chunk
\* followed by every later chunk without its first `overlap` characters is
\* the text.
C14_ChunksCoverText ==
    \A p \in SeqProcs :
        (ChunkerDone(p) /\ req[p].overlap > 0) =>
            LET text == req[p].text
                chunks == res[p].chunks
            IN  /\ \A pos \in 1..Len(text) :
                      \E k \in 1..Len(chunks) :
                          /\ WindowStart(p, k) < pos
                          /\ pos <= WindowStart(p, k) + Len(chunks[k])
                          /\ chunks[k][pos - WindowStart(p, k)] = text[pos]
                /\ Concat([k \in 1..Len(chunks) |->
                            IF k = 1 THEN chunks[k]
                            ELSE DropFirst(chunks[k], req[p].overlap)]) = text

\* a text of pairwise distinct characters split into three or more
\* overlapping chunks
C14_Witness ==
    \E p \in SeqProcs :
        /\ ChunkerDone(p)
        /\ req[p].overlap > 0
        /\ Len(res[p].chunks) >= 3
        /\ req[p].text # ExampleText


RECURSIVE SumTokens(_)
SumTokens(docs) ==
    IF docs = <<>> THEN 0 ELSE estimateTokens(Head(docs).length) + SumTokens(Tail(docs))

Untruncated(docs) == SelectSeq(docs, LAMBDA d : ~d.truncated)

\* C15: the context limitContextSize returns holds the leading chunks of its
\* input, untouched, whose token estimates sum to at most maxTokens, followed
\* by at most one truncated chunk, the last item of the result (a cut copy of
\* the next input chunk).
C15_BudgetKeptButForTruncatedTail ==
    \A p \in SeqProcs :
        (pc[p] = "done" /\ req[p].op = LIMIT) =>
            LET limited == res[p].context
                n == Len(limited)
            IN  /\ n <= Len(req[p].context)
                /\ SumTokens(Untruncated(limited)) <= req[p].maxTokens
                /\ \A k \in 1..n :
                      /\ limited[k].truncated => k = n
                      /\ ~limited[k].truncated => limited[k] = req[p].context[k]
                      /\ limited[k].truncated =>
                            /\ limited[k].id = req[p].context[k].id
                            /\ limited[k].length < req[p].context[k].length + 3
                /\ Len(Untruncated(limited)) >= n - 1

\* two chunks fit, the third is cut to the tokens that remain: with the cut
\* chunk the result is over the budget
C15_Witness ==
    \E p \in SeqProcs :
        /\ pc[p] = "done" /\ req[p].op = LIMIT
        /\ Len(res[p].context) = 3
        /\ res[p].context[3].truncated
        /\ SumTokens(res[p].context) > req[p].maxTokens


ConfidenceDone(p) == pc[p] = "done" /\ req[p].op = CONF

\* the similarity the statement counts for a chunk: 0.5 only when it is missing
statedSimilarity(sim) == IF sim.has THEN sim.value ELSE 50

RECURSIVE sumStatedSimilarity(_)
sumStatedSimilarity(context) ==
    IF context = <<>> THEN 0
    ELSE statedSimilarity(Head(context).similarity) + sumStatedSimilarity(Tail(context))

\* 0.5*meanSimilarity + 0.3*min(n/5, 1) + 0.2*min(meanContentLength/1000, 1),
\* rounded to two decimals, in hundredths
statedConfidence(context) ==
    LET n == Len(context)
    IN  roundFraction(confidenceNum(sumStatedSimilarity(context), n,
                                    sumContentLength(context)), 50 * n)

\* C16: calculateConfidence returns 0 for an empty context; for a non-empty
\* context with similarities in [0,1] it returns a value in [0,1] that equals
\* the weighted sum of the mean similarity, the source-count term and the
\* content-length term rounded to two decimals, where only a missing
\* similarity counts as 0.5.
C16_ConfidenceIsWeightedSum ==
    \A p \in SeqProcs :
        ConfidenceDone(p) =>
            \A k \in 1..Len(req[p].contexts) :
                LET context == req[p].contexts[k]
                    c == res[p].confidences[k]
                IN  /\ context = <<>> => c = 0
                    /\ context # <<>> => /\ c \in 0..100
                                         /\ c = statedConfidence(context)

AllScored(context) == \A k \in 1..Len(context) : context[k].similarity.has

RECURSIVE sumScores(_)
sumScores(context) ==
    IF context = <<>> THEN 0
    ELSE Head(context).similarity.value + sumScores(Tail(context))

\* C17: of two contexts with the same number of chunks and the same content
\* lengths, all similarities present and in [0,1], the one with the smaller
\* or equal mean similarity has the smaller or equal confidence.
C17_ConfidenceMonotonicInMeanSimilarity ==
    \A p \in SeqProcs :
        (ConfidenceDone(p) /\ Len(req[p].contexts) = 2) =>
            LET a == req[p].contexts[1]
                b == req[p].contexts[2]
            IN  (AllScored(a) /\ AllScored(b) /\ sumScores(a) <= sumScores(b))
                    => res[p].confidences[1] <= res[p].confidences[2]


QueryDone(p, op) == pc[p] = "done" /\ req[p].op = op /\ res[p].status = "ok"

AllOfDocument(rows, d) == \A k \in 1..Len(rows) : rows[k].document_name = d

\* C18: with documentName given, the context queryDocuments keeps and sends to
\* the completion backend holds chunks of that document only, every source it
\* returns has that document_name, and so has every result of
\* searchSimilarChunks.
C18_OnlyChunksOfNamedDocument ==
    \A p \in SeqProcs :
        req[p].doc # "" =>
            /\ req[p].op = QUERY => AllOfDocument(L(p).chunks, req[p].doc)
            /\ QueryDone(p, QUERY) => AllOfDocument(res[p].sources, req[p].doc)
            /\ QueryDone(p, SEARCHCHUNKS) => AllOfDocument(res[p].results, req[p].doc)

C18_Witness ==
    \E p \in SeqProcs :
        /\ QueryDone(p, QUERY)
        /\ req[p].doc \in Docs
        /\ L(p).completionCalled
        /\ Len(res[p].sources) = MaxStoreChunks
        /\ \E r \in DOMAIN documents :
              r.document_name = OtherDoc /\ r.embedding >= queryMatchThreshold

\* the notice the statement asks for with an answer that had no context
NoRelevantContext == "no relevant context"

NoContextSignal(r) ==
    \/ "signal" \in DOMAIN r /\ r["signal"] = NoRelevantContext
    \/ r.answer = NoRelevantContext

\* C19: when the retrieval keeps no chunk and no backend call fails,
\* queryDocuments returns an answer with no sources and confidence 0, and a
\* "no relevant context" signal comes with it.
C19_ZeroChunksAnsweredWithSignal ==
    \A p \in SeqProcs :
        (pc[p] = "done" /\ req[p].op = QUERY /\ faults = 0 /\ L(p).chunks = <<>>) =>
            /\ res[p].status = "ok"
            /\ res[p].sources = <<>>
            /\ res[p].confidence = 0
            /\ NoContextSignal(res[p])

NonIncreasing(rows) ==
    \A k \in 1..(Len(rows) - 1) : rows[k].similarity.value >= rows[k + 1].similarity.value

\* C20: a result list of searchSimilarEmbeddings or searchSimilarChunks is in
\* non-increasing order of similarity, holds no row below the threshold given
\* to the search and at most limit rows; the document filter keeps the order.
C20_ResultsRankedAboveThresholdWithinLimit ==
    \A p \in SeqProcs :
        (QueryDone(p, SEARCHEMB) \/ QueryDone(p, SEARCHCHUNKS)) =>
            LET results == res[p].results
            IN  /\ NonIncreasing(results)
                /\ \A k \in 1..Len(results) :
                      /\ results[k].similarity.has
                      /\ results[k].similarity.value >= req[p].threshold
                /\ Len(results) <= req[p].limit

C20_Witness ==
    \E p \in SeqProcs :
        /\ QueryDone(p, SEARCHCHUNKS)
        /\ req[p].doc \in Docs
        /\ Len(res[p].results) = 2
        /\ res[p].results[1].similarity.value > res[p].results[2].similarity.value
        /\ \E r \in DOMAIN documents :
              r.document_name = OtherDoc /\ r.embedding < chunkMatchThreshold


\* no chunk operation of an earlier run was still going on at the call
QuietAtCall(atCall) == \A c \in atCall : c.quiet

EmptyExtraction(p) ==
    req[p].op \in Endpoints /\ req[p].file.present /\ getPdfContent(req[p].file) = 0

\* C22: when the extraction of an ingestion request fails or gives an empty
\* text, the handler's step ends the request with the 400 answer and leaves
\* the stores alone, it does not go on to processDocument; the request made
\* no embedding call, no completion call and no store write.
C22_EmptyExtractionEndsRequest ==
    /\ [](\A p \in SeqProcs :
            (pc[p] = "done" /\ EmptyExtraction(p)) =>
                /\ res[p].status = BadRequest
                /\ ~L(p).embedCalled /\ ~L(p).completionCalled /\ ~L(p).wrote)
    /\ [][\A p \in SeqProcs :
            (EmptyExtraction(p) /\ pc'[p] # pc[p] /\ pc[p] = "ep_extract") =>
                /\ pc'[p] = "done"
                /\ req'[p] = req[p]
                /\ res'[p].status = BadRequest
                /\ UNCHANGED <<documents, few_shot_examples, orphans, faults>>]_vars

C22_Witness ==
    \E p \in SeqProcs :
        /\ pc[p] = "done" /\ EmptyExtraction(p)
        /\ ~req[p].file.readable
        /\ req[p].file.text > 0
        /\ res[p].status = BadRequest


\* C23: whenever batchCreateEmbeddings has returned to reindexDocument, its
\* result has one embedding for each text, the one at position k being the
\* embedding of the k-th text, whatever rate-limit errors the run met.
C23_OneEmbeddingPerTextInOrder ==
    \A p \in SeqProcs :
        (req[p].op = REINDEX /\ pc[p] = "ri_insert") =>
            /\ Len(L(p).embeddings) = Len(ReindexChunks(p))
            /\ \A k \in 1..Len(ReindexChunks(p)) : L(p).embeddings[k] = ReindexChunks(p)[k]

C23_Witness ==
    \E p \in SeqProcs :
        /\ req[p].op = REINDEX /\ pc[p] = "ri_insert"
        /\ L(p).err = RateLimit
        /\ Len(L(p).embeddings) > batchSize


BatchOps == {PROCESS, REINDEX}

\* the batch loop a request runs: its positions and the number of its chunks
BatchLoop(p) ==
    IF req[p].op = PROCESS
    THEN [loop |-> "pe_loop", await |-> "pe_await", delay |-> "pe_delay",
          n |-> Len(splitText(req[p].text))]
    ELSE [loop |-> "bc_loop", await |-> "bc_await", delay |-> "bc_delay",
          n |-> Len(ReindexChunks(p))]

\* every chunk operation of the batches before index k has completed, and no
\* chunk operation at index m or beyond has
BatchesCompleted(p, k, m) ==
    IF req[p].op = PROCESS
    THEN /\ \A j \in 0..(k - 1) : j \in L(p).inserted
         /\ \A j \in L(p).inserted : j < m
    ELSE /\ Len(L(p).embeddings) = k
         /\ L(p).pending \subseteq (k + 1)..m

\* C24: in an error-free run of processEmbeddings or batchCreateEmbeddings
\* the chunk operations of a batch run only after those of every earlier
\* batch have completed; the delay is entered only after a batch that is not
\* the last, with all of that batch's operations completed, and leads to the
\* next batch; a batch other than the first starts only out of the delay, the
\* first one without a delay, and the loop ends out of the last batch without
\* a delay: k batches, k-1 delays.
C24_BatchesSequentialWithDelaysBetween ==
    /\ [](\A p \in SeqProcs :
            (req[p].op \in BatchOps /\ faults = 0) =>
                LET b == BatchLoop(p)
                IN  /\ pc[p] = b.await =>
                          BatchesCompleted(p, L(p).i, L(p).i + batchSize)
                    /\ pc[p] = b.delay =>
                          /\ L(p).i + batchSize < b.n
                          /\ BatchesCompleted(p, L(p).i + batchSize, L(p).i + batchSize))
    /\ [][\A p \in SeqProcs :
            (req[p].op \in BatchOps /\ req'[p] = req[p] /\ faults' = 0 /\ pc'[p] # pc[p]) =>
                LET b == BatchLoop(p)
                IN  /\ pc'[p] = b.await => pc[p] = b.loop /\ loc'[p].i = L(p).i
                    /\ pc[p] = b.delay => pc'[p] = b.loop /\ loc'[p].i = L(p).i + batchSize
                    /\ (pc'[p] = b.loop /\ loc'[p].i = 0) => pc[p] \notin {b.await, b.delay}
                    /\ (pc'[p] = b.loop /\ loc'[p].i > 0 /\ loc'[p].i < b.n) => pc[p] = b.delay
                    /\ (pc'[p] = b.loop /\ loc'[p].i >= b.n) => pc[p] = b.await]_vars

C24_Witness ==
    \E p \in SeqProcs :
        /\ Done(p, PROCESS) /\ Succeeded(p)
        /\ faults = 0
        /\ Cardinality(L(p).inserted) > batchSize


\* the request runs the chunked loop of generateFewShotExamples or of
\* createFewShotExamples
Chunked(p) ==
    /\ req[p].op \in {PROCESS, CFE}
    /\ estimateTokens(req[p].text) > maxInputTokens(req[p].op)

InChunkOrder(examples) ==
    \A j \in 1..(Len(examples) - 1) : examples[j].chunk < examples[j + 1].chunk

\* C25: in the chunked loop of generateFewShotExamples and of
\* createFewShotExamples a request that fails with a rate limit leads to the
\* cooldown and back to the same chunk, nothing collected; one that fails
\* with another error moves on to the next chunk, nothing collected, the run
\* going on; one that succeeds appends the chunk's output. The text handed
\* to the store is the collected outputs, in chunk order, each chunk at most
\* once.
C25_ChunkRetriedOrSkippedOutputsInOrder ==
    /\ [](\A p \in SeqProcs :
            Chunked(p) =>
                /\ pc[p] \in {"fs_loop", "fs_delay", "fs_cooldown", "fs_store"} =>
                      /\ InChunkOrder(L(p).allExamples)
                      /\ \A j \in 1..Len(L(p).allExamples) :
                            L(p).allExamples[j].chunk \in
                                1..Min(L(p).fsI + 1, Len(FewShotChunks(p)))
                /\ pc[p] = "fs_store" =>
                      /\ L(p).fsI = Len(FewShotChunks(p))
                      /\ L(p).fewShotExamples = L(p).allExamples)
    /\ [][\A p \in SeqProcs :
            (Chunked(p) /\ req'[p] = req[p] /\ loc'[p] # loc[p]) =>
                /\ (pc[p] = "fs_loop" /\ L(p).fsI < Len(FewShotChunks(p))) =>
                      IF ev'.kind = "loop" /\ ev'.code = RateLimit
                      THEN /\ pc'[p] = "fs_cooldown"
                           /\ loc'[p].fsI = L(p).fsI
                           /\ loc'[p].allExamples = L(p).allExamples
                      ELSE IF ev'.kind = "loop"
                      THEN /\ pc'[p] = "fs_loop"
                           /\ loc'[p].fsI = L(p).fsI + 1
                           /\ loc'[p].allExamples = L(p).allExamples
                      ELSE /\ Len(loc'[p].allExamples) = Len(L(p).allExamples) + 1
                           /\ SubSeq(loc'[p].allExamples, 1, Len(L(p).allExamples))
                                  = L(p).allExamples
                           /\ loc'[p].allExamples[Len(loc'[p].allExamples)].chunk = L(p).fsI + 1
                /\ pc[p] = "fs_cooldown" =>
                      /\ pc'[p] = "fs_loop"
                      /\ loc'[p].fsI = L(p).fsI
                      /\ loc'[p].allExamples = L(p).allExamples]_vars

C25_Witness ==
    \E p \in SeqProcs :
        /\ Chunked(p)
        /\ pc[p] = "fs_store"
        /\ L(p).err = OtherError
        /\ Len(L(p).fewShotExamples) = Len(FewShotChunks(p)) - 1
        /\ Len(L(p).fewShotExamples) > 0


\* the generator returned normally: createFewShotExamples its text,
\* generateFewShotExamples true
GeneratorReturned(p) ==
    /\ pc[p] = "done" /\ req[p].op \in {PROCESS, CFE}
    /\ res[p].status = "ok"
    /\ req[p].op = PROCESS => res[p].flag

\* C26 (as the code has it): a run of generateFewShotExamples or
\* createFewShotExamples that hits the cache inserts nothing; a run that
\* misses it and returns normally has made one insert, as its last step,
\* after the last chunk of the loop, and the document has one record more,
\* holding the generated text, unless that insert failed in
\* createFewShotExamples, which returns its text with nothing persisted.
C26_OneInsertAfterAllChunks ==
    /\ [](\A p \in SeqProcs :
            GeneratorReturned(p) =>
                \A s \in L(p).seen :
                    IF LookupHit(s) \/ L(p).err = StorageError
                    THEN RowsOf(few_shot_examples, req[p].doc) = s.rows
                    ELSE RowsOf(few_shot_examples, req[p].doc) =
                            s.rows (+) SetToBag({ExampleRow(req[p].doc, L(p).fewShotExamples)}))
    /\ [][\A p \in SeqProcs :
            (req[p].op \in {PROCESS, CFE}
                /\ BagCardinality(few_shot_examples') > BagCardinality(few_shot_examples)) =>
                    /\ pc[p] = "fs_store" /\ pc'[p] = "done"
                    /\ BagCardinality(few_shot_examples') = BagCardinality(few_shot_examples) + 1
                    /\ Chunked(p) => L(p).fsI = Len(FewShotChunks(p))]_vars

\* a chunked run with a skipped chunk that stored its one record
C26_Witness ==
    \E p \in SeqProcs :
        /\ GeneratorReturned(p) /\ Chunked(p)
        /\ L(p).err = OtherError
        /\ \E s \in L(p).seen : ~LookupHit(s)
        /\ CountOf(few_shot_examples, req[p].doc) = 1

\* C26 as stated: every run that misses the cache and returns normally leaves
\* one record more for the document.
C26_EveryCompletedRunPersistsOne ==
    \A p \in SeqProcs :
        GeneratorReturned(p) =>
            \A s \in L(p).seen :
                ~LookupHit(s) =>
                    CountOf(few_shot_examples, req[p].doc) = BagCardinality(s.rows) + 1


CeilDiv(a, b) == (a + b - 1) \div b

\* C27: for a text and maxTokens >= 1, splitTextForTokenLimit returns
\* ceil(length / (maxTokens * 4)) blocks: block k is the characters
\* (k - 1) * maxTokens * 4 + 1 .. k * maxTokens * 4 of the text (to the end of
\* the text for the last one), so the blocks follow one another without
\* overlap, their concatenation is the text, each has at most maxTokens * 4
\* characters and each but the last exactly that many. An error-free chunked
\* run of the generator sends one completion request per block, one after the
\* other, with a delay after every request but the last.
C27_BlocksPartitionTextOneCallEach ==
    /\ [](\A p \in SeqProcs :
            Done(p, SPLITTOKENS) =>
                LET text == req[p].text
                    maxChars == req[p].maxTokens * 4
                    chunks == res[p].chunks
                    n == Len(chunks)
                    windows == splitTextForTokenLimit(Len(text), req[p].maxTokens)
                IN  /\ n = CeilDiv(Len(text), maxChars)
                    /\ Concat(chunks) = text
                    /\ \A k \in 1..n :
                          /\ chunks[k] = SubSeq(text, (k - 1) * maxChars + 1,
                                                Min(k * maxChars, Len(text)))
                          /\ Len(chunks[k]) \in 1..maxChars
                          /\ k < n => Len(chunks[k]) = maxChars
                    /\ Len(windows) = n
                    /\ \A k \in 1..n :
                          /\ windows[k].start = (k - 1) * maxChars
                          /\ windows[k].end - windows[k].start = Len(chunks[k]))
    /\ [](\A p \in SeqProcs :
            (Chunked(p) /\ faults = 0 /\ pc[p] = "fs_store") =>
                LET n == CeilDiv(req[p].text, maxInputTokens(req[p].op) * 4)
                IN  /\ Len(L(p).allExamples) = n
                    /\ \A k \in 1..n : L(p).allExamples[k].chunk = k)
    /\ [][\A p \in SeqProcs :
            (Chunked(p) /\ req'[p] = req[p] /\ faults' = 0 /\ loc'[p] # loc[p]) =>
                LET n == CeilDiv(req[p].text, maxInputTokens(req[p].op) * 4)
                    sent == Len(L(p).allExamples)
                IN  /\ (pc[p] = "fs_loop" /\ L(p).fsI < n) =>
                          /\ loc'[p].allExamples =
                                Append(L(p).allExamples, Output(sent + 1, "ok"))
                          /\ pc'[p] = IF sent + 1 < n THEN "fs_delay" ELSE "fs_loop"
                    /\ pc[p] = "fs_delay" =>
                          /\ pc'[p] = "fs_loop"
                          /\ loc'[p].allExamples = L(p).allExamples
                          /\ sent < n
                    /\ pc'[p] = "fs_delay" => pc[p] = "fs_loop"
                    /\ pc'[p] = "fs_store" => sent = n]_vars

\* a text cut into three blocks, the last one shorter than the others
C27_Witness ==
    \E p \in SeqProcs :
        /\ Done(p, SPLITTOKENS)
        /\ Len(res[p].chunks) = 3
        /\ Len(res[p].chunks[3]) < req[p].maxTokens * 4

\* an error-free chunked run of the generator with its two requests sent
C27_ChunkedRunSent ==
    \E p \in SeqProcs :
        /\ Chunked(p) /\ faults = 0 /\ pc[p] = "fs_store"
        /\ Len(L(p).allExamples) = 2


\* the number of leading chunks of the context whose token estimates sum to
\* at most maxTokens
LeadingFit(context, maxTokens) ==
    CHOOSE k \in 0..Len(context) :
        /\ SumTokens(SubSeq(context, 1, k)) <= maxTokens
        /\ k < Len(context) => SumTokens(SubSeq(context, 1, k + 1)) > maxTokens

\* C28: limitContextSize returns the leading chunks of its input, unchanged
\* and in order, as long as their token estimates sum to at most maxTokens;
\* the first chunk that does not fit follows as its first
\* (maxTokens - used) * 4 characters when maxTokens - used is more than 100,
\* and is left out otherwise; nothing after that chunk is in the result.
C28_PrefixThenTruncatedTail ==
    \A p \in SeqProcs :
        (pc[p] = "done" /\ req[p].op = LIMIT) =>
            LET context == req[p].context
                limited == res[p].context
                k == LeadingFit(context, req[p].maxTokens)
                remaining == req[p].maxTokens - SumTokens(SubSeq(context, 1, k))
            IN  /\ SubSeq(limited, 1, k) = SubSeq(context, 1, k)
                /\ IF k < Len(context) /\ remaining > 100
                   THEN /\ Len(limited) = k + 1
                        /\ limited[k + 1] = [context[k + 1] EXCEPT
                                               !.length = remaining * 4,
                                               !.truncated = TRUE]
                   ELSE Len(limited) = k


\* the context cut to maxTokens: its leading chunks that fit, then the next
\* one cut to what is left (and marked) when more than 100 tokens are left
TrimmedTo(context, maxTokens) ==
    LET k == LeadingFit(context, maxTokens)
        remaining == maxTokens - SumTokens(SubSeq(context, 1, k))
    IN  SubSeq(context, 1, k) \o
            (IF k < Len(context) /\ remaining > 100
             THEN <<[context[k + 1] EXCEPT !.length = remaining * 4 + 3, !.truncated = TRUE]>>
             ELSE <<>>)

\* the steps of queryDocuments, in order
QueryChain ==
    {<<"q_embed", "q_match">>, <<"q_match", "ga_lookup">>,
     <<"ga_lookup", "ga_complete">>, <<"ga_complete", "done">>}

\* the request of generateAnswer is estimated above the ceiling
AboveCeiling(p) ==
    totalEstimatedTokens(req[p].text, L(p).chunks, ~IsEmptyText(L(p).fewShotExamples))
        > maxRequestTokens

\* C29: a queryDocuments call goes once through embedding, search, few-shot
\* lookup and completion, in that order, or ends with an error at one of
\* them; a call that returns has sent one completion request, as its last
\* step. The context of that request is the limited context when the request
\* is estimated at 50000 tokens or less, and the limited context cut once
\* more, to 8000 tokens, when it is estimated above: the request is then
\* sent without another estimate.
C29_OneChainOneCompletionOneFallback ==
    /\ [](\A p \in SeqProcs :
            (Done(p, QUERY) /\ Succeeded(p)) => L(p).completionCalled)
    /\ [][\A p \in SeqProcs :
            (req[p].op = QUERY /\ (pc'[p] # pc[p] \/ loc'[p] # loc[p])) =>
                /\ \/ <<pc[p], pc'[p]>> \in QueryChain
                   \/ pc'[p] = "done" /\ res'[p].status = "error"
                /\ loc'[p].completionCalled # L(p).completionCalled =>
                      pc[p] = "ga_complete"
                /\ pc[p] = "ga_complete" =>
                      /\ pc'[p] = "done"
                      /\ loc'[p].completionCalled
                      /\ loc'[p].chunks = IF AboveCeiling(p)
                                          THEN TrimmedTo(L(p).chunks, reducedContextTokens)
                                          ELSE L(p).chunks]_vars

\* a call that returned after the fallback: the context was cut to 8000
\* tokens, and the request sent was still estimated above the ceiling
C29_Witness ==
    \E p \in SeqProcs :
        /\ Done(p, QUERY) /\ Succeeded(p)
        /\ Len(L(p).chunks) = 3
        /\ L(p).chunks[3].truncated
        /\ L(p).chunks[3].length = 2000 * 4 + 3
        /\ AboveCeiling(p)

\* C30: the sources and the confidence queryDocuments returns are those of
\* the context of the completion request that was sent: one source per
\* chunk of it, in its order, and the confidence computed over it.
C30_ResultOverContextSent ==
    \A p \in SeqProcs :
        (Done(p, QUERY) /\ Succeeded(p)) =>
            LET sent == L(p).chunks
            IN  /\ Len(res[p].sources) = Len(sent)
                /\ \A k \in 1..Len(sent) :
                      /\ res[p].sources[k].document_name = sent[k].document_name
                      /\ res[p].sources[k].chunk_index = sent[k].chunk_index
                      /\ res[p].sources[k].similarity =
                            (IF sent[k].similarity.has THEN sent[k].similarity.value ELSE 0)
                      /\ res[p].sources[k].content = Min(sent[k].length, 200) + 3
                /\ res[p].confidence = calculateConfidence(sent)

\* four chunks were found and limited, three of them were sent after the
\* fallback, and the result has three sources
C30_Witness ==
    \E p \in SeqProcs :
        /\ Done(p, QUERY) /\ Succeeded(p)
        /\ req[p].doc = ""
        /\ Cardinality({c \in StoredCopies(documents) :
                            c.row.embedding >= queryMatchThreshold}) = 4
        /\ Len(L(p).chunks) = 3
        /\ Len(res[p].sources) = 3


\* C31: the embedding model is built at most once, and every call of
\* getEmbeddingPipeline that returns hands out that one model, however the
\* calls interleave.
C31_ModelLoadedOnceSameHandle ==
    /\ embeddingPipeline.built <= 1
    /\ \A p \in Procs :
          (Done(p, GETPIPELINE) /\ Succeeded(p)) => res[p].handle = 1


\* C32: no step of a processDocument call takes a chunk record out of the
\* store, and when the call ends with an error every chunk it has inserted
\* (those of its completed batches among them) is still stored.
C32_InsertedChunksStayAfterFailure ==
    /\ [](\A p \in SeqProcs :
            (Done(p, PROCESS) /\ ~Succeeded(p)) =>
                L(p).inserted \subseteq StoredIndexes(req[p].doc))
    /\ [][\A p \in SeqProcs :
            (req[p].op = PROCESS /\ req'[p] = req[p]) =>
                \A r \in DOMAIN documents :
                    /\ r \in DOMAIN documents'
                    /\ documents'[r] >= documents[r]]_vars

\* a call that failed in its second batch: the chunks of the first batch
\* are stored
C32_Witness ==
    \E p \in SeqProcs :
        /\ Done(p, PROCESS) /\ ~Succeeded(p)
        /\ Cardinality(L(p).inserted) >= batchSize
        /\ L(p).inserted \subseteq StoredIndexes(req[p].doc)
        /\ CountOf(documents, req[p].doc) < Len(splitText(req[p].text))


\* the call returned from the existence check, without going through
\* processEmbeddings
ShortCircuited(p) ==
    /\ Done(p, PROCESS) /\ Succeeded(p)
    /\ ~L(p).embedCalled /\ ~L(p).wrote

\* C33: a processDocument call that returns from the existence check (the
\* call itself meeting no error) reports the number of chunks of its text,
\* which is what a full ingestion of the text reports.
C33_ShortCircuitReportsFullChunkCount ==
    \A p \in SeqProcs :
        (ShortCircuited(p) /\ NoAnomalySinceCall(p)) =>
            res[p].count = Len(splitText(req[p].text))


\* C34: when processDocument returns fewShotExamplesGenerated = true, the
\* few-shot store holds a record of the document.
C34_FlagTrueMeansRecordStored ==
    \A p \in SeqProcs :
        (Done(p, PROCESS) /\ Succeeded(p) /\ res[p].flag) =>
            CountOf(few_shot_examples, req[p].doc) >= 1


\* C35: the insert of a chunk operation whose batch attempt was rejected
\* takes effect, if at all, before the batch is retried and before
\* processDocument has ended: while its call waits in the cooldown.
C35_NoInsertOutlivesBatchAttempt ==
    [][\A t \in DOMAIN orphans :
            (CopiesIn(t, orphans') < CopiesIn(t, orphans) /\ documents' # documents) =>
                pc[t.owner] = "pe_cooldown"]_vars


InEmbeddingsLoop(p) == pc[p] \in {"pe_loop", "pe_await", "pe_delay", "pe_cooldown"}
InBatchLoop(p) == pc[p] \in {"bc_loop", "bc_await", "bc_delay", "bc_cooldown"}
InChunkedLoop(p) == pc[p] \in {"fs_loop", "fs_delay", "fs_cooldown"}
AfterEmbeddings(p) ==
    pc[p] \in {"fs_check", "fs_single", "fs_loop", "fs_delay", "fs_cooldown", "fs_store"}

\* C36: with finitely many backend errors, processEmbeddings, the batch loop
\* of batchCreateEmbeddings and the chunked few-shot loop each come to an
\* end (they return, or the call ends with the error). A loop that returns
\* has attempted everything: processEmbeddings has inserted every chunk, the
\* batch loop has an embedding for every text, and the chunked loop has gone
\* through every chunk, its index moving on by one, and only after a request
\* for the chunk was made.
C36_LoopsEndHavingAttemptedAll ==
    /\ \A p \in SeqProcs :
          /\ InEmbeddingsLoop(p) ~> (pc[p] \in {"fs_check", "done"})
          /\ InBatchLoop(p) ~> (pc[p] \in {"ri_insert", "done"})
          /\ InChunkedLoop(p) ~> (pc[p] = "fs_store")
    /\ [](\A p \in SeqProcs :
            /\ (req[p].op = PROCESS /\ AfterEmbeddings(p)) =>
                  ChunkIndexes(p) \subseteq L(p).inserted
            /\ pc[p] = "ri_insert" => Len(L(p).embeddings) = Len(ReindexChunks(p))
            /\ (Chunked(p) /\ pc[p] = "fs_store") => L(p).fsI = Len(FewShotChunks(p)))
    /\ [][\A p \in SeqProcs :
            (InChunkedLoop(p) /\ req'[p] = req[p] /\ loc'[p].fsI # L(p).fsI) =>
                /\ loc'[p].fsI = L(p).fsI + 1
                /\ pc[p] = "fs_delay" \/ (pc[p] = "fs_loop" /\ loc'[p].completionCalled)]_vars

\* an ingestion whose second batch was rate-limited once has left
\* processEmbeddings with every chunk inserted
C36_Witness ==
    \E p \in SeqProcs :
        /\ req[p].op = PROCESS /\ AfterEmbeddings(p)
        /\ L(p).err = RateLimit
        /\ Cardinality(L(p).inserted) > batchSize


\* C37: no step of a queryDocuments or searchSimilarChunks call changes the
\* chunk records or the few-shot example records, whether the call returns
\* or throws; a query that finds no examples of its document puts none in
\* the prompt and stores none.
C37_QueryPathReadOnly ==
    /\ [][\A p \in SeqProcs :
            req[p].op \in {QUERY, SEARCHCHUNKS} =>
                /\ documents' = documents
                /\ few_shot_examples' = few_shot_examples]_vars
    /\ [](\A p \in SeqProcs :
            (Done(p, QUERY) /\ Succeeded(p)
                /\ CountOf(few_shot_examples, req[p].doc) = 0) =>
                    IsEmptyText(L(p).fewShotExamples))

\* a query for a document that has chunks and no examples returned its
\* answer, and the document still has none
C37_Witness ==
    \E p \in SeqProcs :
        /\ Done(p, QUERY) /\ Succeeded(p)
        /\ req[p].doc \in Docs
        /\ Len(res[p].sources) > 0
        /\ CountOf(few_shot_examples, req[p].doc) = 0
        /\ IsEmptyText(L(p).fewShotExamples)

====
